---------------------------- MODULE Spec2Model ----------------------------
(***************************************************************************)
(* A model of go-ignore: the normalizer, the pattern parser, the segment    *)
(* and glob matching engine with its backtrack budget, and the Matcher      *)
(* facade that stores rules and answers last-match-wins queries.            *)
(*                                                                          *)
(* Text is modelled byte by byte: a Go string or []byte is a sequence of    *)
(* one-byte values, each written as a TLA+ string ("a", "/", "\\"); the     *)
(* three BOM bytes are written "xEF", "xBB", "xBF".  Ord gives each byte    *)
(* its numeric value, which the range and POSIX class tests compare.        *)
(***************************************************************************)
EXTENDS Integers, Sequences, FiniteSets, TLC

VARIABLES
    goos,       \* runtime.GOOS of the build
    opts,       \* Matcher.opts
    rules,      \* Matcher.rules
    warnings,   \* Matcher.warnings
    handler,    \* Matcher.handler ("nil" when none is registered)
    delivered,  \* the calls made to the registered handler, in order
    call,       \* the most recent call and its arguments
    ret,        \* what that call returned
    mu,         \* Matcher.mu, the sync.RWMutex
    procs       \* the call stack of every goroutine that uses the matcher

vars == <<goos, opts, rules, warnings, handler, delivered, call, ret, mu, procs>>

-----------------------------------------------------------------------------
(* Bytes *)

Ord ==
    ("\t" :> 9) @@ ("\n" :> 10) @@ ("\r" :> 13) @@ (" " :> 32) @@ ("!" :> 33)
    @@ ("\"" :> 34) @@ ("#" :> 35) @@ ("$" :> 36) @@ ("%" :> 37) @@ ("&" :> 38)
    @@ ("'" :> 39) @@ ("(" :> 40) @@ (")" :> 41) @@ ("*" :> 42) @@ ("+" :> 43)
    @@ ("," :> 44) @@ ("-" :> 45) @@ ("." :> 46) @@ ("/" :> 47) @@ ("0" :> 48)
    @@ ("1" :> 49) @@ ("2" :> 50) @@ ("3" :> 51) @@ ("4" :> 52) @@ ("5" :> 53)
    @@ ("6" :> 54) @@ ("7" :> 55) @@ ("8" :> 56) @@ ("9" :> 57) @@ (":" :> 58)
    @@ (";" :> 59) @@ ("<" :> 60) @@ ("=" :> 61) @@ (">" :> 62) @@ ("?" :> 63)
    @@ ("@" :> 64) @@ ("A" :> 65) @@ ("B" :> 66) @@ ("C" :> 67) @@ ("D" :> 68)
    @@ ("E" :> 69) @@ ("F" :> 70) @@ ("G" :> 71) @@ ("H" :> 72) @@ ("I" :> 73)
    @@ ("J" :> 74) @@ ("K" :> 75) @@ ("L" :> 76) @@ ("M" :> 77) @@ ("N" :> 78)
    @@ ("O" :> 79) @@ ("P" :> 80) @@ ("Q" :> 81) @@ ("R" :> 82) @@ ("S" :> 83)
    @@ ("T" :> 84) @@ ("U" :> 85) @@ ("V" :> 86) @@ ("W" :> 87) @@ ("X" :> 88)
    @@ ("Y" :> 89) @@ ("Z" :> 90) @@ ("[" :> 91) @@ ("\\" :> 92) @@ ("]" :> 93)
    @@ ("^" :> 94) @@ ("_" :> 95) @@ ("a" :> 97) @@ ("b" :> 98)
    @@ ("c" :> 99) @@ ("d" :> 100) @@ ("e" :> 101) @@ ("f" :> 102) @@ ("g" :> 103)
    @@ ("h" :> 104) @@ ("i" :> 105) @@ ("j" :> 106) @@ ("k" :> 107) @@ ("l" :> 108)
    @@ ("m" :> 109) @@ ("n" :> 110) @@ ("o" :> 111) @@ ("p" :> 112) @@ ("q" :> 113)
    @@ ("r" :> 114) @@ ("s" :> 115) @@ ("t" :> 116) @@ ("u" :> 117) @@ ("v" :> 118)
    @@ ("w" :> 119) @@ ("x" :> 120) @@ ("y" :> 121) @@ ("z" :> 122) @@ ("{" :> 123)
    @@ ("|" :> 124) @@ ("}" :> 125) @@ ("~" :> 126) @@ ("xEF" :> 239) @@ ("xBB" :> 187)
    @@ ("xBF" :> 191)

\* strings.ToLower on one ASCII byte
ToLowerByte(c) ==
    IF Ord[c] >= 65 /\ Ord[c] <= 90
    THEN CHOOSE d \in DOMAIN Ord : Ord[d] = Ord[c] + 32
    ELSE c

\* strings.ToLower
ToLower(s) == [i \in 1..Len(s) |-> ToLowerByte(s[i])]

\* s[from:] with a 0-based Go index
Drop(s, from) == SubSeq(s, from + 1, Len(s))

\* s[:to] with a 0-based Go index
Take(s, to) == SubSeq(s, 1, to)

\* strings.HasPrefix
HasPrefix(s, p) == Len(s) >= Len(p) /\ Take(s, Len(p)) = p

\* strings.HasSuffix
HasSuffix(s, p) == Len(s) >= Len(p) /\ Drop(s, Len(s) - Len(p)) = p

\* strings.Index: the 0-based offset of the first occurrence, -1 when absent
Index(s, p) ==
    LET hits == {i \in 0..(Len(s) - Len(p)) : SubSeq(s, i + 1, i + Len(p)) = p}
    IN  IF hits = {} THEN -1 ELSE CHOOSE i \in hits : \A j \in hits : i <= j

\* strings.Contains
Contains(s, p) == Index(s, p) >= 0

\* strings.Count for a one-byte separator
Count(s, c) == Cardinality({i \in 1..Len(s) : s[i] = c})

\* strings.Split on a one-byte separator: always at least one part
RECURSIVE Split(_, _)
Split(s, c) ==
    LET k == Index(s, <<c>>)
    IN  IF k < 0 THEN <<s>> ELSE <<Take(s, k)>> \o Split(Drop(s, k + 1), c)

\* the parts of a split that are not empty, in order
RECURSIVE NonEmptyParts(_)
NonEmptyParts(parts) ==
    IF parts = <<>> THEN <<>>
    ELSE IF Head(parts) = <<>> THEN NonEmptyParts(Tail(parts))
    ELSE <<Head(parts)>> \o NonEmptyParts(Tail(parts))

\* the number of consecutive backslashes that end s[:end]
RECURSIVE TrailingBackslashes(_, _)
TrailingBackslashes(s, end) ==
    IF end > 0 /\ s[end] = "\\" THEN 1 + TrailingBackslashes(s, end - 1) ELSE 0

-----------------------------------------------------------------------------
(* Normalizer *)

\* strings.ReplaceAll(p, "\\", "/")
BackslashesToSlashes(p) == [i \in 1..Len(p) |-> IF p[i] = "\\" THEN "/" ELSE p[i]]

\* normalizePath step 2: every run of slashes becomes one slash
RECURSIVE CollapseSlashes(_, _)
CollapseSlashes(p, prevSlash) ==
    IF p = <<>> THEN <<>>
    ELSE IF Head(p) = "/"
         THEN (IF prevSlash THEN <<>> ELSE <<"/">>) \o CollapseSlashes(Tail(p), TRUE)
         ELSE <<Head(p)>> \o CollapseSlashes(Tail(p), FALSE)

\* StripDotSlash removing one leading "./" only
StripDotSlashOnce(p) ==
    IF HasPrefix(p, <<".", "/">>) THEN Drop(p, 2) ELSE p

\* normalizePath step 3: remove every leading "./"
RECURSIVE StripDotSlash(_)
StripDotSlash(p) ==
    IF HasPrefix(p, <<".", "/">>) THEN StripDotSlash(Drop(p, 2)) ELSE p

\* strings.TrimSuffix(p, "/")
TrimSuffixSlash(p) == IF HasSuffix(p, <<"/">>) THEN Take(p, Len(p) - 1) ELSE p

normalizePath(os, p) ==
    LET p1 == IF os = "windows" THEN BackslashesToSlashes(p) ELSE p
        p2 == IF Contains(p1, <<"/", "/">>) THEN CollapseSlashes(p1, FALSE) ELSE p1
    IN  TrimSuffixSlash(StripDotSlash(p2))

normalizeBasePath(os, basePath) ==
    IF basePath = <<>> THEN <<>> ELSE normalizePath(os, basePath)

\* normalizeContent step 1: remove every leading BOM
RECURSIVE StripBOM(_)
StripBOM(content) ==
    IF HasPrefix(content, <<"xEF", "xBB", "xBF">>)
    THEN StripBOM(Drop(content, 3))
    ELSE content

\* bytes.ReplaceAll(content, "\r\n", "\n")
RECURSIVE ReplaceCRLF(_)
ReplaceCRLF(content) ==
    IF content = <<>> THEN <<>>
    ELSE IF HasPrefix(content, <<"\r", "\n">>)
         THEN <<"\n">> \o ReplaceCRLF(Drop(content, 2))
         ELSE <<Head(content)>> \o ReplaceCRLF(Tail(content))

\* bytes.ReplaceAll(content, "\r", "\n")
ReplaceCR(content) ==
    [i \in 1..Len(content) |-> IF content[i] = "\r" THEN "\n" ELSE content[i]]

normalizeContent(content) ==
    IF Len(content) = 0 THEN content
    ELSE ReplaceCR(ReplaceCRLF(StripBOM(content)))

\* trimTrailingWhitespace's first loop: the end of the text before the
\* trailing spaces and tabs
RECURSIVE ContentEnd(_, _)
ContentEnd(line, end) ==
    IF end > 0 /\ (line[end] = " " \/ line[end] = "\t")
    THEN ContentEnd(line, end - 1)
    ELSE end

\* trimTrailingWhitespace taking any backslash before the run as an escape
trimTrailingWhitespaceAnyBackslash(line) ==
    LET end == ContentEnd(line, Len(line))
        bs  == TrailingBackslashes(line, end)
    IN  IF end = Len(line) THEN line
        ELSE IF bs > 0 /\ line[end + 1] = " "
             THEN Take(line, end - 1) \o <<" ">>
             ELSE Take(line, end)

trimTrailingWhitespace(line) ==
    LET end == ContentEnd(line, Len(line))
        bs  == TrailingBackslashes(line, end)
    IN  IF end = Len(line) THEN line
        ELSE IF bs % 2 = 1 /\ line[end + 1] = " "
             THEN Take(line, end - 1) \o <<" ">>
             ELSE Take(line, end)

-----------------------------------------------------------------------------
(* Pattern parser *)

\* parseSegments: the classification of one part
Classify(part) ==
    IF part = <<"*", "*">>
    THEN [value |-> <<>>, wildcard |-> FALSE, doubleStar |-> TRUE]
    ELSE [value |-> part,
          wildcard |-> \/ Contains(part, <<"*">>) \/ Contains(part, <<"?">>)
                       \/ Contains(part, <<"\\">>) \/ Contains(part, <<"[">>),
          doubleStar |-> FALSE]

parseSegments(pattern) ==
    LET parts == NonEmptyParts(Split(pattern, "/"))
    IN  [i \in 1..Len(parts) |-> Classify(parts[i])]

\* determineAnchoring with only the leading slash anchoring a pattern
determineAnchoringLeadingSlash(line) ==
    IF HasPrefix(line, <<"/">>)
    THEN IF Drop(line, 1) = <<>>
         THEN [anchored |-> TRUE, trimmed |-> <<>>, emptyAfterSlash |-> TRUE]
         ELSE [anchored |-> TRUE, trimmed |-> Drop(line, 1), emptyAfterSlash |-> FALSE]
    ELSE [anchored |-> FALSE, trimmed |-> line, emptyAfterSlash |-> FALSE]

determineAnchoring(line) ==
    IF HasPrefix(line, <<"/">>)
    THEN IF Drop(line, 1) = <<>>
         THEN [anchored |-> TRUE, trimmed |-> <<>>, emptyAfterSlash |-> TRUE]
         ELSE [anchored |-> TRUE, trimmed |-> Drop(line, 1), emptyAfterSlash |-> FALSE]
    ELSE IF Contains(line, <<"/">>) /\ ~HasPrefix(line, <<"*", "*", "/">>)
         THEN [anchored |-> TRUE, trimmed |-> line, emptyAfterSlash |-> FALSE]
         ELSE [anchored |-> FALSE, trimmed |-> line, emptyAfterSlash |-> FALSE]

\* parseLine step 4 without the \! escape
StripNegationBangOnly(line) ==
    IF HasPrefix(line, <<"!">>) THEN [negate |-> TRUE, line |-> Drop(line, 1)]
    ELSE [negate |-> FALSE, line |-> line]

\* parseLine step 4: the \! escape and the negation marker
StripNegation(line) ==
    IF HasPrefix(line, <<"\\", "!">>) THEN [negate |-> FALSE, line |-> Drop(line, 1)]
    ELSE IF HasPrefix(line, <<"!">>) THEN [negate |-> TRUE, line |-> Drop(line, 1)]
    ELSE [negate |-> FALSE, line |-> line]

\* parseLine step 5: the \# escape
StripHashEscape(line) ==
    IF HasPrefix(line, <<"\\", "#">>) THEN Drop(line, 1) ELSE line

\* parseLine step 6: the directory-only marker
StripDirOnly(line) ==
    IF HasSuffix(line, <<"/">>)
    THEN [dirOnly |-> TRUE, line |-> Take(line, Len(line) - 1)]
    ELSE [dirOnly |-> FALSE, line |-> line]

Warning(lineNum, original, message) ==
    [Line |-> lineNum, Pattern |-> original, Message |-> message, BasePath |-> <<>>]

NoRule(ws) == [rules |-> <<>>, warnings |-> ws]

\* parseLine: at most one rule and at most one warning, each as a sequence
parseLine(line0, lineNum, basePath) ==
    LET line1 == trimTrailingWhitespace(line0)
        neg   == StripNegation(line1)
        line5 == StripHashEscape(neg.line)
        dir   == StripDirOnly(line5)
        line6 == dir.line
        anch  == determineAnchoring(line6)
    IN  IF line1 = <<>> THEN NoRule(<<>>)
        ELSE IF HasPrefix(line1, <<"#">>) THEN NoRule(<<>>)
        ELSE IF line6 = <<>>
             THEN NoRule(<<Warning(lineNum, line1, "pattern is empty after processing")>>)
        ELSE IF HasSuffix(line6, <<"\\">>)
                /\ TrailingBackslashes(line6, Len(line6)) % 2 = 1
             THEN NoRule(<<Warning(lineNum, line1,
                          "trailing backslash is invalid (pattern never matches)")>>)
        ELSE IF anch.emptyAfterSlash
             THEN NoRule(<<Warning(lineNum, line1,
                          "pattern is empty after removing leading slash")>>)
        ELSE [rules |-> <<[pattern  |-> line1,
                           basePath |-> basePath,
                           segments |-> parseSegments(anch.trimmed),
                           line     |-> lineNum,
                           negate   |-> neg.negate,
                           dirOnly  |-> dir.dirOnly,
                           anchored |-> anch.anchored]>>,
              warnings |-> <<>>]

\* ParseFrom leaving the loop at the first line with a warning
RECURSIVE ParseFromAbort(_, _, _)
ParseFromAbort(lines, i, basePath) ==
    IF i > Len(lines) THEN NoRule(<<>>)
    ELSE LET one == parseLine(lines[i], i, basePath)
         IN  IF one.warnings # <<>> THEN NoRule(one.warnings)
             ELSE LET rest == ParseFromAbort(lines, i + 1, basePath)
                  IN  [rules |-> one.rules \o rest.rules, warnings |-> rest.warnings]

\* parseLines' loop over the lines from index i on
RECURSIVE ParseFrom(_, _, _)
ParseFrom(lines, i, basePath) ==
    IF i > Len(lines) THEN NoRule(<<>>)
    ELSE LET one  == parseLine(lines[i], i, basePath)
             rest == ParseFrom(lines, i + 1, basePath)
             ws   == [k \in 1..Len(one.warnings) |->
                        [one.warnings[k] EXCEPT !.BasePath = basePath]]
         IN  [rules |-> one.rules \o rest.rules, warnings |-> ws \o rest.warnings]

parseLines(os, basePath, content) ==
    ParseFrom(Split(normalizeContent(content), "\n"), 1, normalizeBasePath(os, basePath))

-----------------------------------------------------------------------------
(* Matching engine: the backtrack budget *)

DefaultMaxBacktrackIterations == 10000

newMatchContext(maxIter) ==
    [iterations |-> 0,
     maxIter    |-> IF maxIter = 0 THEN DefaultMaxBacktrackIterations ELSE maxIter]

\* tick without the comparison with the ceiling
tickNeverFails(ctx) == [ctx |-> [ctx EXCEPT !.iterations = @ + 1], ok |-> TRUE]

\* matchContext.tick: the context after the increment, and what tick returns
tick(ctx) ==
    [ctx |-> [ctx EXCEPT !.iterations = @ + 1],
     ok  |-> IF ctx.maxIter < 0 THEN TRUE ELSE ctx.iterations + 1 <= ctx.maxIter]

\* what a matching function returns, with the context as it leaves it
R(ok, ctx) == [ok |-> ok, ctx |-> ctx]

-----------------------------------------------------------------------------
(* Matching engine: character classes *)

\* pattern[i] with a 0-based Go index
At(pattern, i) == pattern[i + 1]

Between(c, lo, hi) == Ord[c] >= Ord[lo] /\ Ord[c] <= Ord[hi]

PosixNames ==
    {<<"a","l","p","h","a">>, <<"d","i","g","i","t">>, <<"a","l","n","u","m">>,
     <<"u","p","p","e","r">>, <<"l","o","w","e","r">>, <<"s","p","a","c","e">>,
     <<"b","l","a","n","k">>, <<"p","r","i","n","t">>, <<"g","r","a","p","h">>,
     <<"p","u","n","c","t">>, <<"c","n","t","r","l">>, <<"x","d","i","g","i","t">>}

\* posixClass: the predicate of a recognized name, applied to c
posixClass(name, c) ==
    CASE name = <<"a","l","p","h","a">> -> Between(c, "a", "z") \/ Between(c, "A", "Z")
      [] name = <<"d","i","g","i","t">> -> Between(c, "0", "9")
      [] name = <<"a","l","n","u","m">> ->
            Between(c, "a", "z") \/ Between(c, "A", "Z") \/ Between(c, "0", "9")
      [] name = <<"u","p","p","e","r">> -> Between(c, "A", "Z")
      [] name = <<"l","o","w","e","r">> -> Between(c, "a", "z")
      [] name = <<"s","p","a","c","e">> -> Ord[c] \in {32, 9, 10, 13, 12, 11}
      [] name = <<"b","l","a","n","k">> -> Ord[c] \in {32, 9}
      [] name = <<"p","r","i","n","t">> -> Ord[c] >= 32 /\ Ord[c] <= 126
      [] name = <<"g","r","a","p","h">> -> Ord[c] > 32 /\ Ord[c] <= 126
      [] name = <<"p","u","n","c","t">> ->
            \/ Ord[c] >= 33 /\ Ord[c] <= 47
            \/ Ord[c] >= 58 /\ Ord[c] <= 64
            \/ Ord[c] >= 91 /\ Ord[c] <= 96
            \/ Ord[c] >= 123 /\ Ord[c] <= 126
      [] name = <<"c","n","t","r","l">> -> Ord[c] < 32 \/ Ord[c] = 127
      [] name = <<"x","d","i","g","i","t">> ->
            Between(c, "0", "9") \/ Between(c, "a", "f") \/ Between(c, "A", "F")
      [] OTHER -> FALSE

\* InRange with the upper end left out of the range
InRangeExclusive(lo, hi, ch) == Ord[lo] <= Ord[hi] /\ Ord[ch] >= Ord[lo] /\ Ord[ch] < Ord[hi]

\* the range test of matchCharClass: a reversed range holds nothing
InRange(lo, hi, ch) == Ord[lo] <= Ord[hi] /\ Ord[ch] >= Ord[lo] /\ Ord[ch] <= Ord[hi]

\* matchCharClass, a range lo-hi whose lo is at index i: whether ch is in
\* it and the index after it
ClassRange(pattern, i, lo, ch) ==
    LET escapedHi == At(pattern, i + 2) = "\\" /\ i + 3 < Len(pattern)
        hi        == IF escapedHi THEN At(pattern, i + 3) ELSE At(pattern, i + 2)
    IN  [in |-> InRange(lo, hi, ch), next |-> IF escapedHi THEN i + 4 ELSE i + 3]

IsRangeAt(pattern, i) ==
    i + 2 < Len(pattern) /\ At(pattern, i + 1) = "-" /\ At(pattern, i + 2) # "]"

\* the result of a class: a negated class inverts membership
ClassResult(inClass, negate) == IF negate THEN ~inClass ELSE inClass

\* matchCharClass: the loop over the members from index i on
RECURSIVE ClassLoop(_, _, _, _, _, _)
ClassLoop(pattern, i, first, inClass, negate, ch) ==
    IF i >= Len(pattern) THEN [matched |-> FALSE, newPos |-> 0, valid |-> FALSE]
    ELSE LET c == At(pattern, i) IN
    IF c = "]" /\ ~first
    THEN [matched |-> ClassResult(inClass, negate), newPos |-> i + 1, valid |-> TRUE]
    ELSE IF c = "[" /\ i + 1 < Len(pattern) /\ At(pattern, i + 1) = ":"
    THEN LET end  == Index(Drop(pattern, i + 2), <<":", "]">>)
             name == SubSeq(pattern, i + 3, i + 2 + end)
         IN  IF end >= 0 /\ name \in PosixNames
             THEN ClassLoop(pattern, i + 2 + end + 2, FALSE,
                            inClass \/ posixClass(name, ch), negate, ch)
             ELSE ClassLoop(pattern, i + 1, FALSE, inClass \/ ch = "[", negate, ch)
    ELSE IF c = "\\" /\ i + 1 < Len(pattern)
    THEN IF IsRangeAt(pattern, i + 1)
         THEN LET rg == ClassRange(pattern, i + 1, At(pattern, i + 1), ch)
              IN  ClassLoop(pattern, rg.next, FALSE, inClass \/ rg.in, negate, ch)
         ELSE ClassLoop(pattern, i + 2, FALSE,
                        inClass \/ ch = At(pattern, i + 1), negate, ch)
    ELSE IF IsRangeAt(pattern, i)
    THEN LET rg == ClassRange(pattern, i, c, ch)
         IN  ClassLoop(pattern, rg.next, FALSE, inClass \/ rg.in, negate, ch)
    ELSE ClassLoop(pattern, i + 1, FALSE, inClass \/ ch = c, negate, ch)

matchCharClass(pattern, pos, ch) ==
    LET i      == pos + 1
        negate == i < Len(pattern) /\ At(pattern, i) \in {"!", "^"}
    IN  IF i >= Len(pattern) THEN [matched |-> FALSE, newPos |-> 0, valid |-> FALSE]
        ELSE ClassLoop(pattern, IF negate THEN i + 1 ELSE i, TRUE, FALSE, negate, ch)

-----------------------------------------------------------------------------
(* Matching engine: globs *)

\* matchGlobRecursive: the pattern after its leading run of stars
RECURSIVE SkipStars(_)
SkipStars(pattern) ==
    IF pattern # <<>> /\ Head(pattern) = "*" THEN SkipStars(Tail(pattern)) ELSE pattern

RECURSIVE matchGlobRecursive(_, _, _), GlobStarLoop(_, _, _, _)
matchGlobRecursive(pattern, s, ctx) ==
    IF Len(pattern) = 0 THEN R(Len(s) = 0, ctx)
    ELSE LET t == tick(ctx) IN
    IF ~t.ok THEN R(FALSE, t.ctx)
    ELSE IF pattern[1] = "*"
    THEN LET rest == SkipStars(pattern)
         IN  IF Len(rest) = 0 THEN R(TRUE, t.ctx) ELSE GlobStarLoop(rest, s, 0, t.ctx)
    ELSE IF pattern[1] = "?"
    THEN IF Len(s) = 0 THEN R(FALSE, t.ctx)
         ELSE matchGlobRecursive(Tail(pattern), Tail(s), t.ctx)
    ELSE IF pattern[1] = "[" /\ Len(s) = 0 THEN R(FALSE, t.ctx)
    ELSE IF pattern[1] = "[" /\ s[1] = "/" THEN R(FALSE, t.ctx)
    ELSE IF pattern[1] = "[" /\ matchCharClass(pattern, 0, s[1]).valid
    THEN LET class == matchCharClass(pattern, 0, s[1])
         IN  IF ~class.matched THEN R(FALSE, t.ctx)
             ELSE matchGlobRecursive(Drop(pattern, class.newPos), Tail(s), t.ctx)
    ELSE LET lit == IF pattern[1] = "\\" /\ Len(pattern) > 1 THEN Tail(pattern) ELSE pattern
         IN  IF Len(s) = 0 THEN R(FALSE, t.ctx)
             ELSE IF lit[1] # s[1] THEN R(FALSE, t.ctx)
             ELSE matchGlobRecursive(Tail(lit), Tail(s), t.ctx)

\* matchGlobRecursive: the loop that lets a star take i bytes of s
GlobStarLoop(pattern, s, i, ctx) ==
    IF i > Len(s) THEN R(FALSE, ctx)
    ELSE LET m == matchGlobRecursive(pattern, Drop(s, i), ctx) IN
         IF m.ok THEN R(TRUE, m.ctx)
         ELSE LET t == tick(m.ctx) IN
              IF ~t.ok THEN R(FALSE, t.ctx) ELSE GlobStarLoop(pattern, s, i + 1, t.ctx)

ContainsAny(s, set) == \E i \in 1..Len(s) : s[i] \in set

matchGlob(pattern, s, ctx) ==
    IF ~ContainsAny(pattern, {"*", "?", "\\", "["}) THEN R(pattern = s, ctx)
    ELSE IF pattern = <<"*">> THEN R(TRUE, ctx)
    ELSE IF ~ContainsAny(pattern, {"?", "\\", "["})
            /\ Count(pattern, "*") = 1 /\ HasSuffix(pattern, <<"*">>)
    THEN R(HasPrefix(s, Take(pattern, Len(pattern) - 1)), ctx)
    ELSE IF ~ContainsAny(pattern, {"?", "\\", "["})
            /\ Count(pattern, "*") = 1 /\ HasPrefix(pattern, <<"*">>)
    THEN R(HasSuffix(s, Drop(pattern, 1)), ctx)
    ELSE matchGlobRecursive(pattern, s, ctx)

-----------------------------------------------------------------------------
(* Matching engine: segments and rules *)

matchSingleSegment(seg, pathSeg0, caseInsensitive, ctx) ==
    LET pathSeg == IF caseInsensitive THEN ToLower(pathSeg0) ELSE pathSeg0
    IN  IF seg.doubleStar THEN R(TRUE, ctx)
        ELSE IF ~seg.wildcard THEN R(seg.value = pathSeg, ctx)
        ELSE matchGlob(seg.value, pathSeg, ctx)

\* the terminal test of matchSegmentsExact: nothing of the path is left
ExactTerminal(path) == Len(path) = 0

\* the terminal test of matchSegmentsPrefix: something of the path is left
PrefixTerminal(path) == Len(path) > 0

\* matchSegmentsExact (prefix = FALSE) and matchSegmentsPrefix (prefix =
\* TRUE): the two functions differ only in the terminal test
RECURSIVE matchSegments(_, _, _, _, _), DoubleStarLoop(_, _, _, _, _, _)
matchSegments(prefix, pattern, path, ctx, caseInsensitive) ==
    LET t == tick(ctx) IN
    IF ~t.ok THEN R(FALSE, t.ctx)
    ELSE IF Len(pattern) = 0
    THEN R(IF prefix THEN PrefixTerminal(path) ELSE ExactTerminal(path), t.ctx)
    ELSE IF pattern[1].doubleStar
    THEN DoubleStarLoop(prefix, pattern, path, 0, t.ctx, caseInsensitive)
    ELSE IF Len(path) = 0 THEN R(FALSE, t.ctx)
    ELSE LET m == matchSingleSegment(pattern[1], path[1], caseInsensitive, t.ctx) IN
         IF ~m.ok THEN R(FALSE, m.ctx)
         ELSE matchSegments(prefix, Tail(pattern), Tail(path), m.ctx, caseInsensitive)

\* DoubleStarLoop with the loop starting at one segment instead of none
RECURSIVE DoubleStarLoopNonEmpty(_, _, _, _, _, _)
DoubleStarLoopNonEmpty(prefix, pattern, path, i, ctx, caseInsensitive) ==
    IF i = 0
    THEN DoubleStarLoopNonEmpty(prefix, pattern, path, 1, ctx, caseInsensitive)
    ELSE IF i > Len(path) THEN R(FALSE, ctx)
    ELSE LET m == matchSegments(prefix, Tail(pattern), Drop(path, i), ctx, caseInsensitive) IN
         IF m.ok THEN R(TRUE, m.ctx)
         ELSE LET t == tick(m.ctx) IN
              IF ~t.ok THEN R(FALSE, t.ctx)
              ELSE DoubleStarLoopNonEmpty(prefix, pattern, path, i + 1, t.ctx, caseInsensitive)

\* the loop that lets a double-star take i leading path segments
DoubleStarLoop(prefix, pattern, path, i, ctx, caseInsensitive) ==
    IF i > Len(path) THEN R(FALSE, ctx)
    ELSE LET m == matchSegments(prefix, Tail(pattern), Drop(path, i), ctx, caseInsensitive) IN
         IF m.ok THEN R(TRUE, m.ctx)
         ELSE LET t == tick(m.ctx) IN
              IF ~t.ok THEN R(FALSE, t.ctx)
              ELSE DoubleStarLoop(prefix, pattern, path, i + 1, t.ctx, caseInsensitive)

matchSegmentsExact(pattern, path, ctx, caseInsensitive) ==
    matchSegments(FALSE, pattern, path, ctx, caseInsensitive)

matchSegmentsPrefix(pattern, path, ctx, caseInsensitive) ==
    matchSegments(TRUE, pattern, path, ctx, caseInsensitive)

splitPath(path) == IF path = <<>> THEN <<>> ELSE NonEmptyParts(Split(path, "/"))

\* matchRule: the scope test
InScope(r, path) ==
    r.basePath = <<>> \/ HasPrefix(path, r.basePath \o <<"/">>) \/ path = r.basePath

\* matchRule: the segments the pattern is matched against
ScopedSegments(r, path, pathSegments) ==
    IF r.basePath = <<>> THEN pathSegments
    ELSE IF path = r.basePath THEN <<>>
    ELSE splitPath(Drop(path, Len(r.basePath) + 1))

\* matchRule: prefixMatch
PrefixMode(r, isDir) == r.dirOnly /\ ~isDir

\* matchRule: the last start offset of a floating rule
MaxStart(r, matchSegs, prefixMatch) ==
    IF prefixMatch THEN Len(matchSegs) - 1 ELSE Len(matchSegs) - Len(r.segments)

\* matchRule: the loop over the start offsets of a floating rule, and the
\* double-star special case after it
\* FloatingLoop returning true when its tick fails
RECURSIVE FloatingLoopFailOpen(_, _, _, _, _, _)
FloatingLoopFailOpen(r, matchSegs, i, prefixMatch, ctx, caseInsensitive) ==
    IF i > MaxStart(r, matchSegs, prefixMatch)
    THEN IF Len(r.segments) > 0 /\ r.segments[1].doubleStar
         THEN matchSegments(prefixMatch, r.segments, matchSegs, ctx, caseInsensitive)
         ELSE R(FALSE, ctx)
    ELSE LET t == tick(ctx) IN
         IF ~t.ok THEN R(TRUE, t.ctx)
         ELSE LET m == matchSegments(prefixMatch, r.segments, Drop(matchSegs, i),
                                     t.ctx, caseInsensitive) IN
              IF m.ok THEN R(TRUE, m.ctx)
              ELSE FloatingLoopFailOpen(r, matchSegs, i + 1, prefixMatch, m.ctx, caseInsensitive)

RECURSIVE FloatingLoop(_, _, _, _, _, _)
FloatingLoop(r, matchSegs, i, prefixMatch, ctx, caseInsensitive) ==
    IF i > MaxStart(r, matchSegs, prefixMatch)
    THEN IF Len(r.segments) > 0 /\ r.segments[1].doubleStar
         THEN matchSegments(prefixMatch, r.segments, matchSegs, ctx, caseInsensitive)
         ELSE R(FALSE, ctx)
    ELSE LET t == tick(ctx) IN
         IF ~t.ok THEN R(FALSE, t.ctx)
         ELSE LET m == matchSegments(prefixMatch, r.segments, Drop(matchSegs, i),
                                     t.ctx, caseInsensitive) IN
              IF m.ok THEN R(TRUE, m.ctx)
              ELSE FloatingLoop(r, matchSegs, i + 1, prefixMatch, m.ctx, caseInsensitive)

matchRule(r, path, pathSegments, isDir, caseInsensitive, ctx) ==
    LET t         == tick(ctx)
        matchSegs == ScopedSegments(r, path, pathSegments)
    IN  IF ~t.ok THEN R(FALSE, t.ctx)
        ELSE IF ~InScope(r, path) THEN R(FALSE, t.ctx)
        ELSE IF Len(matchSegs) = 0 THEN R(Len(r.segments) = 0, t.ctx)
        ELSE IF r.anchored
        THEN matchSegments(PrefixMode(r, isDir), r.segments, matchSegs, t.ctx, caseInsensitive)
        ELSE FloatingLoop(r, matchSegs, 0, PrefixMode(r, isDir), t.ctx, caseInsensitive)

-----------------------------------------------------------------------------
(* Matcher facade *)

\* the zero MatchResult
NoMatch ==
    [Rule |-> <<>>, BasePath |-> <<>>, Line |-> 0,
     Ignored |-> FALSE, Matched |-> FALSE, Negated |-> FALSE]

\* Decide with the Negated field left at its zero value
DecideUnflagged(r) ==
    [Rule |-> r.pattern, BasePath |-> r.basePath, Line |-> r.line,
     Ignored |-> ~r.negate, Matched |-> TRUE, Negated |-> FALSE]

\* MatchWithReason: the result once rule r has matched
Decide(r) ==
    [Rule |-> r.pattern, BasePath |-> r.basePath, Line |-> r.line,
     Ignored |-> ~r.negate, Matched |-> TRUE, Negated |-> r.negate]

\* MatchWithReason: the call of matchRule for one stored rule; the call
\* site passes the configured ceiling, so the rule starts from a new count
RuleMatches(o, r, path, isDir) ==
    matchRule(r, path, splitPath(path), isDir, o.CaseInsensitive,
              newMatchContext(o.MaxBacktrackIterations)).ok

\* EvalRules leaving the loop at the first rule that matches
RECURSIVE EvalRulesFirstMatch(_, _, _, _, _, _)
EvalRulesFirstMatch(o, rs, i, path, isDir, result) ==
    IF i > Len(rs) THEN result
    ELSE IF RuleMatches(o, rs[i], path, isDir) THEN Decide(rs[i])
    ELSE EvalRulesFirstMatch(o, rs, i + 1, path, isDir, result)

\* MatchWithReason: the loop over the stored rules from index i on
RECURSIVE EvalRules(_, _, _, _, _, _)
EvalRules(o, rs, i, path, isDir, result) ==
    IF i > Len(rs) THEN result
    ELSE EvalRules(o, rs, i + 1, path, isDir,
                   IF RuleMatches(o, rs[i], path, isDir) THEN Decide(rs[i]) ELSE result)

\* MatchWithReason without the test for the empty path
MatchWithReasonResultNoGuard(os, o, rs, path0, isDir) ==
    EvalRules(o, rs, 1, normalizePath(os, path0), isDir, NoMatch)

MatchWithReasonResult(os, o, rs, path0, isDir) ==
    LET path == normalizePath(os, path0)
    IN  IF path = <<>> THEN NoMatch ELSE EvalRules(o, rs, 1, path, isDir, NoMatch)

\* NewWithOptions: a ceiling of 0 becomes the default
NewWithOptions(o) ==
    [o EXCEPT !.MaxBacktrackIterations =
        IF @ = 0 THEN DefaultMaxBacktrackIterations ELSE @]

\* the values a call that returns nothing of a kind leaves in ret
NoReturn ==
    [isNil |-> TRUE, warns |-> <<>>, ignored |-> FALSE, result |-> NoMatch, count |-> 0,
     ok |-> FALSE, iterations |-> 0, rules |-> <<>>, text |-> <<>>]

NoCall ==
    [op |-> "New", basePath |-> <<>>, isNilContent |-> FALSE, content |-> <<>>,
     path |-> <<>>, isDir |-> FALSE, fn |-> "nil"]

\* the goroutines that share the matcher
Goroutines == {1, 2}

\* sync.RWMutex: the goroutine that holds the writer mutex w (0 for none),
\* whether it has the lock already or still waits for the readers to leave,
\* the goroutines that hold the lock for reading, and how many times Lock
\* has returned
NoLock == [w |-> 0, writing |-> FALSE, readers |-> {}, acquired |-> 0]

\* no goroutine has called the matcher
NoProcs == [g \in Goroutines |-> <<>>]

\* the handler called in the opposite order of the lines
DeliveriesLastFirst(fn, basePath, ws) ==
    [k \in 1..Len(ws) |-> [fn |-> fn, basePath |-> basePath, warning |-> ws[Len(ws) + 1 - k]]]

\* the handler calls AddPatterns makes for the warnings ws
Deliveries(fn, basePath, ws) ==
    [k \in 1..Len(ws) |-> [fn |-> fn, basePath |-> basePath, warning |-> ws[k]]]

-----------------------------------------------------------------------------
(* The Matcher as a state machine *)

\* Bounds of the model
MaxRules == 3
MaxWarnings == 2

SmallCeiling == 4

Root == <<>>
ScopeSrc == <<"s","r","c">>

LogLine          == <<"*",".","l","o","g">>
NotLogLine       == <<"!","*",".","l","o","g">>
ImportantLine    == <<"i","m","p","o","r","t","a","n","t",".","l","o","g">>
NotImportantLine == <<"!">> \o ImportantLine
BuildDirLine     == <<"b","u","i","l","d","/">>

\* "*.log\n!important.log\nimportant.log"
ThreeRules == LogLine \o <<"\n">> \o NotImportantLine \o <<"\n">> \o ImportantLine

\* "!\n/\n": two malformed lines
TwoWarnings == <<"!", "\n", "/", "\n">>

\* the (scope, content) pairs AddPatterns is called with
Batches ==
    {[basePath |-> Root, isNil |-> TRUE, content |-> <<>>],
     [basePath |-> Root, isNil |-> FALSE, content |-> <<>>],
     [basePath |-> Root, isNil |-> FALSE, content |-> ThreeRules],
     [basePath |-> Root, isNil |-> FALSE, content |-> LogLine],
     [basePath |-> Root, isNil |-> FALSE, content |-> NotLogLine],
     [basePath |-> ScopeSrc, isNil |-> FALSE, content |-> BuildDirLine],
     [basePath |-> <<"s","r","c","/">>, isNil |-> FALSE, content |-> TwoWarnings]}

ImportantLog == ImportantLine
DebugLog     == <<"d","e","b","u","g",".","l","o","g">>
SrcDebugLog  == ScopeSrc \o <<"/">> \o DebugLog
SrcBuild     == ScopeSrc \o <<"/","b","u","i","l","d">>

\* the (path, isDir) pairs Match and MatchWithReason are called with
Queries ==
    {[path |-> ImportantLog, isDir |-> FALSE],
     [path |-> DebugLog, isDir |-> FALSE],
     [path |-> SrcDebugLog, isDir |-> FALSE],
     [path |-> SrcBuild, isDir |-> TRUE],
     [path |-> SrcBuild \o <<"/", "x">>, isDir |-> FALSE],
     [path |-> <<".", "/">>, isDir |-> FALSE]}

Handlers == {"nil", "h1"}

\* the options a Matcher is constructed with
\* the zero MatcherOptions: default ceiling, case-sensitive
DefaultOptions == [MaxBacktrackIterations |-> 0, CaseInsensitive |-> FALSE]

Init ==
    /\ goos = "linux"
    /\ opts = NewWithOptions(DefaultOptions)
    /\ rules = <<>>
    /\ warnings = <<>>
    /\ handler = "nil"
    /\ delivered = <<>>
    /\ mu = NoLock
    /\ procs = NoProcs
    /\ call = NoCall
    /\ ret = NoReturn

\* SetWarningHandler handing the collected warnings to the new handler
SetWarningHandlerRetroactive(fn) ==
    /\ handler' = fn
    /\ call' = [NoCall EXCEPT !.op = "SetWarningHandler", !.fn = fn]
    /\ ret' = NoReturn
    /\ delivered' = IF fn = "nil" THEN delivered
                    ELSE delivered \o Deliveries(fn, <<>>, warnings)
    /\ warnings' = IF fn = "nil" THEN warnings ELSE <<>>
    /\ UNCHANGED <<mu, procs, goos, opts, rules>>

SetWarningHandler(fn) ==
    /\ handler' = fn
    /\ call' = [NoCall EXCEPT !.op = "SetWarningHandler", !.fn = fn]
    /\ ret' = NoReturn
    /\ UNCHANGED <<mu, procs, goos, opts, rules, warnings, delivered>>

\* Stored with the new rules taking the place of the stored ones
Replaced(rs, new) == new

\* AddPatterns: m.rules after the append
Stored(rs, new) == rs \o new

\* AddPatterns taking nil content as a request to empty the matcher
AddPatternsNilResets(b) ==
    LET parsed == parseLines(goos, b.basePath, b.content) IN
    /\ call' = [NoCall EXCEPT !.op = "AddPatterns", !.basePath = b.basePath,
                              !.isNilContent = b.isNil, !.content = b.content]
    /\ IF b.isNil
       THEN /\ ret' = NoReturn
            /\ rules' = <<>>
            /\ warnings' = <<>>
            /\ UNCHANGED delivered
       ELSE /\ Len(rules) + Len(parsed.rules) <= MaxRules
            /\ Len(warnings) + Len(delivered) + Len(parsed.warnings) <= MaxWarnings
            /\ rules' = Stored(rules, parsed.rules)
            /\ IF handler # "nil"
               THEN /\ delivered' = delivered \o Deliveries(handler, b.basePath, parsed.warnings)
                    /\ ret' = NoReturn
                    /\ UNCHANGED warnings
               ELSE /\ warnings' = warnings \o parsed.warnings
                    /\ ret' = [NoReturn EXCEPT !.isNil = (parsed.warnings = <<>>),
                                               !.warns = parsed.warnings]
                    /\ UNCHANGED delivered
    /\ UNCHANGED <<mu, procs, goos, opts, handler>>

AddPatterns(b) ==
    LET parsed == parseLines(goos, b.basePath, b.content) IN
    /\ call' = [NoCall EXCEPT !.op = "AddPatterns", !.basePath = b.basePath,
                              !.isNilContent = b.isNil, !.content = b.content]
    /\ IF b.isNil
       THEN /\ ret' = NoReturn
            /\ UNCHANGED <<rules, warnings, delivered>>
       ELSE /\ Len(rules) + Len(parsed.rules) <= MaxRules
            /\ Len(warnings) + Len(delivered) + Len(parsed.warnings) <= MaxWarnings
            /\ rules' = Stored(rules, parsed.rules)
            /\ IF handler # "nil"
               THEN /\ delivered' = delivered \o Deliveries(handler, b.basePath, parsed.warnings)
                    /\ ret' = NoReturn
                    /\ UNCHANGED warnings
               ELSE /\ warnings' = warnings \o parsed.warnings
                    /\ ret' = [NoReturn EXCEPT !.isNil = (parsed.warnings = <<>>),
                                               !.warns = parsed.warnings]
                    /\ UNCHANGED delivered
    /\ UNCHANGED <<mu, procs, goos, opts, handler>>

Warnings ==
    /\ call' = [NoCall EXCEPT !.op = "Warnings"]
    /\ ret' = [NoReturn EXCEPT !.isNil = (Len(warnings) = 0), !.warns = warnings]
    /\ UNCHANGED <<mu, procs, goos, opts, rules, warnings, handler, delivered>>

MatchWithReason(path, isDir) ==
    /\ call' = [NoCall EXCEPT !.op = "MatchWithReason", !.path = path, !.isDir = isDir]
    /\ ret' = [NoReturn EXCEPT !.isNil = FALSE,
                 !.result = MatchWithReasonResult(goos, opts, rules, path, isDir)]
    /\ UNCHANGED <<mu, procs, goos, opts, rules, warnings, handler, delivered>>

\* Match returning the Matched field of the result
MatchReturnsMatched(path, isDir) ==
    /\ call' = [NoCall EXCEPT !.op = "Match", !.path = path, !.isDir = isDir]
    /\ ret' = [NoReturn EXCEPT !.isNil = FALSE,
                 !.ignored = MatchWithReasonResult(goos, opts, rules, path, isDir).Matched]
    /\ UNCHANGED <<mu, procs, goos, opts, rules, warnings, handler, delivered>>

Match(path, isDir) ==
    /\ call' = [NoCall EXCEPT !.op = "Match", !.path = path, !.isDir = isDir]
    /\ ret' = [NoReturn EXCEPT !.isNil = FALSE,
                 !.ignored = MatchWithReasonResult(goos, opts, rules, path, isDir).Ignored]
    /\ UNCHANGED <<mu, procs, goos, opts, rules, warnings, handler, delivered>>

RuleCount ==
    /\ call' = [NoCall EXCEPT !.op = "RuleCount"]
    /\ ret' = [NoReturn EXCEPT !.isNil = FALSE, !.count = Len(rules)]
    /\ UNCHANGED <<mu, procs, goos, opts, rules, warnings, handler, delivered>>

Next ==
    \/ \E fn \in Handlers : SetWarningHandler(fn)
    \/ \E b \in Batches : AddPatterns(b)
    \/ Warnings
    \/ \E q \in Queries : MatchWithReason(q.path, q.isDir)
    \/ \E q \in Queries : Match(q.path, q.isDir)
    \/ RuleCount

Spec == Init /\ [][Next]_vars

-----------------------------------------------------------------------------
(* Properties of the Matcher *)

\* the path a query evaluates the rules on
QueryPath == normalizePath(goos, call.path)

\* the indices of the stored rules that match the query in call
Matching ==
    {i \in 1..Len(rules) : RuleMatches(opts, rules[i], QueryPath, call.isDir)}

LastOf(S) == CHOOSE i \in S : \A j \in S : j <= i

\* the lines of a batch, as parseLines numbers them
LinesOf(b) == Split(normalizeContent(b.content), "\n")

\* r is the rule of line r.line of some batch: its pattern is the text of
\* that line without trailing whitespace, its scope the normalized scope of
\* the batch, its negate flag the leading "!" of the line
FromBatch(r) ==
    \E b \in Batches :
        /\ ~b.isNil
        /\ r.line \in 1..Len(LinesOf(b))
        /\ r.pattern = trimTrailingWhitespace(LinesOf(b)[r.line])
        /\ r.basePath = normalizeBasePath(goos, b.basePath)
        /\ r.negate = HasPrefix(r.pattern, <<"!">>)

\* C1: Match reports a non-empty path as ignored exactly when some stored
\* rule matches it and the matching rule with the highest index in the rule
\* sequence is not negated; when no rule matches, or the last matching rule
\* is negated, the path is not ignored.
C1_LastMatchWins ==
    (call.op = "Match" /\ QueryPath # <<>>) =>
        (ret.ignored <=> (Matching # {} /\ ~rules[LastOf(Matching)].negate))

\* a Match that an earlier negated matching rule would have decided the
\* other way
C1_Witness ==
    /\ call.op = "Match"
    /\ ret.ignored
    /\ \E i \in Matching : rules[i].negate /\ i < LastOf(Matching)

\* C2: when at least one rule matches, MatchWithReason reports Matched, and
\* Rule, BasePath, Line and Negated are the pattern text, normalized scope,
\* 1-indexed source line and negate flag of the last matching rule, with
\* Ignored the opposite of Negated; when none matches every field is zero.
\* With the rules *.log, !important.log, important.log the path
\* important.log is ignored by rule important.log of line 3.
C2_ReasonIsLastMatch ==
    (call.op = "MatchWithReason" /\ QueryPath # <<>>) =>
        /\ Matching = {} => ret.result = NoMatch
        /\ Matching # {} =>
             LET r == rules[LastOf(Matching)] IN
             /\ FromBatch(r)
             /\ ret.result.Matched
             /\ ret.result.Rule = r.pattern
             /\ ret.result.BasePath = r.basePath
             /\ ret.result.Line = r.line
             /\ ret.result.Negated = r.negate
             /\ ret.result.Ignored = ~r.negate
        /\ (rules = parseLines(goos, Root, ThreeRules).rules /\ call.path = ImportantLog) =>
             /\ ret.result.Ignored
             /\ ret.result.Rule = ImportantLine
             /\ ret.result.Line = 3

\* a MatchWithReason decided by a negated rule that follows another
\* matching rule
C2_Witness ==
    /\ call.op = "MatchWithReason"
    /\ ret.result.Negated
    /\ \E i \in Matching : i < LastOf(Matching)
    /\ ret.result.Line = rules[LastOf(Matching)].line

-----------------------------------------------------------------------------
(* One rule and its queries: a Matcher that receives a single one-line
   batch and is then asked about paths *)

BuildLine       == <<"b","u","i","l","d">>
AnchoredBuildDirLine == <<"/">> \o BuildDirLine
TmpLine         == <<"*",".","t","m","p">>
TempLine        == <<"t","e","m","p">>
AnchoredTempLine == <<"/">> \o TempLine
SrcTempLine     == ScopeSrc \o <<"/">> \o TempLine
DeepTempLine    == <<"*","*","/">> \o TempLine
TempDirLine     == TempLine \o <<"/">>
SlashesLine     == <<"/","/","/">>
DoubleStarDirLine == <<"*","*","/">>

\* the one-line contents of the batches
RuleLines ==
    {BuildDirLine, AnchoredBuildDirLine, BuildLine, TmpLine, TempLine,
     AnchoredTempLine, SrcTempLine, DeepTempLine, TempDirLine, SlashesLine,
     DoubleStarDirLine}

RuleBatches ==
    {[basePath |-> sc, isNil |-> FALSE, content |-> line] :
        sc \in {Root, ScopeSrc}, line \in RuleLines}

Under(dir, name) == dir \o <<"/">> \o name

XTmp == <<"x",".","t","m","p">>
Lib  == <<"l","i","b">>
OutputJs == <<"o","u","t","p","u","t",".","j","s">>
Sub  == <<"s","u","b">>

RulePaths ==
    {BuildLine, Under(BuildLine, OutputJs), Under(BuildLine, Sub),
     Under(Under(BuildLine, Sub), <<"x">>),
     XTmp, Under(ScopeSrc, XTmp), Under(Lib, XTmp),
     Under(<<"s","r","c","x">>, <<"a",".","t","m","p">>),
     ScopeSrc, TempLine, SrcTempLine, Under(Lib, SrcTempLine),
     Under(<<"a","/","b">>, TempLine), Under(TempLine, <<"x">>),
     SrcBuild, Under(SrcBuild, OutputJs), Under(SrcBuild, Sub),
     Under(ScopeSrc, SrcTempLine), Under(ScopeSrc, Under(Lib, SrcTempLine)),
     Under(SrcTempLine, <<"x">>)}

\* one batch, then Match queries
NextRule ==
    \/ \E b \in RuleBatches : rules = <<>> /\ AddPatterns(b)
    \/ \E path \in RulePaths, isDir \in BOOLEAN : Match(path, isDir)

SpecRule == Init /\ [][NextRule]_vars

\* an unlimited context, for deciding whether one segment matches
Unlimited == newMatchContext(-1)

SegMatch(seg, pathSeg) == matchSingleSegment(seg, pathSeg, FALSE, Unlimited).ok

\* pattern covers path: every double-star takes a run of segments (f[i] is
\* where the run or segment of pattern[i] ends), every other pattern
\* segment takes the one segment it matches, and nothing is left over
ExactRef(pattern, path) ==
    LET n == Len(pattern)
        m == Len(path)
    IN  IF n = 0 THEN m = 0
        ELSE \E f \in [1..n -> 0..m] :
                /\ f[n] = m
                /\ \A i \in 1..n :
                     LET s == IF i = 1 THEN 0 ELSE f[i - 1] IN
                     IF pattern[i].doubleStar THEN f[i] >= s
                     ELSE f[i] = s + 1 /\ SegMatch(pattern[i], path[s + 1])

\* pattern covers leading segments of path and at least one remains
PrefixRef(pattern, path) ==
    \E k \in 0..(Len(path) - 1) : ExactRef(pattern, Take(path, k))

\* the mode of the rule for the candidate, applied to segs
ModeRef(r, isDir, segs) ==
    IF r.dirOnly /\ ~isDir THEN PrefixRef(r.segments, segs) ELSE ExactRef(r.segments, segs)

\* the single stored rule and the segments of the query below its scope
TheRule == rules[1]
RelSegs == ScopedSegments(TheRule, QueryPath, splitPath(QueryPath))

\* a Match of a path by a matcher that holds one non-negated rule
OneRuleMatch == call.op = "Match" /\ Len(rules) = 1 /\ ~TheRule.negate

Asked(line, scope, path, isDir) ==
    /\ OneRuleMatch
    /\ TheRule.pattern = line /\ TheRule.basePath = scope
    /\ call.path = path /\ call.isDir = isDir

\* C4: a directory-only rule asked about a non-directory matches only in
\* PREFIX mode (the pattern covers leading segments at some start offset and
\* at least one path segment remains); every other combination matches only
\* in EXACT mode (the pattern consumes all remaining segments). Rule build/
\* matches build as a directory, not build as a file, and matches
\* build/output.js as a file; a rule without trailing slash never matches a
\* path with segments left over after the pattern.
C4_ModeSelection ==
    /\ OneRuleMatch /\ ret.ignored =>
         \E off \in 0..Len(RelSegs) : ModeRef(TheRule, call.isDir, Drop(RelSegs, off))
    /\ Asked(BuildDirLine, Root, BuildLine, TRUE) => ret.ignored
    /\ Asked(BuildDirLine, Root, BuildLine, FALSE) => ~ret.ignored
    /\ Asked(BuildDirLine, Root, Under(BuildLine, OutputJs), FALSE) => ret.ignored
    /\ (OneRuleMatch /\ ~TheRule.dirOnly /\ ret.ignored) =>
         \E off \in 0..Len(RelSegs) : ExactRef(TheRule.segments, Drop(RelSegs, off))

\* the directories strictly above path
DirsAbove(path) == {Take(path, i - 1) : i \in {j \in 2..Len(path) : path[j] = "/"}}

\* C5: for a trailing-slash rule and every path strictly beneath a directory
\* that the rule matches, Match returns true, whether the candidate is a
\* file (isDir false) or a subdirectory (isDir true).
C5_DirectoryContents ==
    (/\ OneRuleMatch
     /\ TheRule.dirOnly
     /\ \E d \in DirsAbove(QueryPath) : RuleMatches(opts, TheRule, d, TRUE))
        => ret.ignored

\* the part of C5 about files: it holds
C5_FilesBeneath ==
    (/\ OneRuleMatch
     /\ TheRule.dirOnly
     /\ ~call.isDir
     /\ \E d \in DirsAbove(QueryPath) : RuleMatches(opts, TheRule, d, TRUE))
        => ret.ignored

\* C6: a rule under a non-empty scope S matches only paths that start with
\* S and a separator, and matches them as the same rule without scope
\* matches the path with that prefix removed; in particular not a sibling
\* srcx/a.tmp of scope src. Rule *.tmp under src matches src/x.tmp, not
\* x.tmp or lib/x.tmp.
C6_ScopeIsolation ==
    /\ (OneRuleMatch /\ TheRule.basePath # <<>>) =>
         LET S == TheRule.basePath IN
         /\ ret.ignored => HasPrefix(QueryPath, S \o <<"/">>)
         /\ HasPrefix(QueryPath, S \o <<"/">>) =>
              (ret.ignored <=> RuleMatches(opts, [TheRule EXCEPT !.basePath = <<>>],
                                           Drop(QueryPath, Len(S) + 1), call.isDir))
    /\ \A d \in BOOLEAN :
         /\ Asked(TmpLine, ScopeSrc, Under(ScopeSrc, XTmp), d) => ret.ignored
         /\ Asked(TmpLine, ScopeSrc, XTmp, d) => ~ret.ignored
         /\ Asked(TmpLine, ScopeSrc, Under(Lib, XTmp), d) => ~ret.ignored
         /\ Asked(TmpLine, ScopeSrc, Under(<<"s","r","c","x">>, <<"a",".","t","m","p">>), d)
              => ~ret.ignored

\* the part of C6 that holds: a rule with at least one segment is isolated
\* to its scope
C6_NonEmptyRulesIsolated ==
    (OneRuleMatch /\ TheRule.basePath # <<>> /\ TheRule.segments # <<>> /\ ret.ignored)
        => HasPrefix(QueryPath, TheRule.basePath \o <<"/">>)

\* the pattern text of a line: the line without its negation marker
PatternText(line) == IF HasPrefix(line, <<"!">>) THEN Drop(line, 1) ELSE line

\* C8, which patterns are anchored: those with a leading slash, and those
\* that contain a slash other than a single trailing one and do not start
\* with **/
AnchoredText(p) ==
    \/ HasPrefix(p, <<"/">>)
    \/ /\ Contains(IF HasSuffix(p, <<"/">>) THEN Take(p, Len(p) - 1) ELSE p, <<"/">>)
       /\ ~HasPrefix(p, <<"*","*","/">>)

\* the start offsets of a rule on a non-empty list of segments
StartOffsets(r, segs) == IF r.anchored THEN {0} ELSE 0..(Len(segs) - 1)

-----------------------------------------------------------------------------
(* Direct calls of the segment matchers and of matchSingleSegment: the
   arguments are drawn at the start, a call leaves its result in ret *)

\* the Matcher state of a freshly constructed default Matcher
Fresh ==
    /\ goos = "linux"
    /\ opts = NewWithOptions(DefaultOptions)
    /\ rules = <<>>
    /\ warnings = <<>>
    /\ handler = "nil"
    /\ delivered = <<>>
    /\ mu = NoLock
    /\ procs = NoProcs
    /\ ret = NoReturn

\* the ceilings a context is created with: default, unlimited, small
Ceilings == {0, -1, SmallCeiling}

A_SS_B    == <<"a","/","*","*","/","b">>
SS_Foo    == <<"*","*","/","f","o","o">>
Foo_SS    == <<"f","o","o","/","*","*">>

SegmentPatterns ==
    {A_SS_B, SS_Foo, Foo_SS, <<"*","*">>, <<"*","*","/","*","*">>,
     <<"a","/","*","*">>, <<"*","*","/","a","/","*","*">>, <<"a","/","*","/","b">>,
     <<"a">>, <<"a","/","b">>, <<"*","*","/","b">>,
     <<"a","/","*","*","/","*","*","/","b">>, <<"*">>}

AB     == <<"a","/","b">>
AXB    == <<"a","/","x","/","b">>
AXYZB  == <<"a","/","x","/","y","/","z","/","b">>
Foo    == <<"f","o","o">>
ABFoo  == <<"a","/","b","/","f","o","o">>
FooBar == <<"f","o","o","/","b","a","r">>
FooABC == <<"f","o","o","/","a","/","b","/","c">>

SegmentPaths ==
    {<<>>, <<"a">>, <<"b">>, AB, AXB, AXYZB, Foo, ABFoo, FooBar, FooABC,
     <<"a","/","b","/","a","/","b">>, <<"x","/","a">>}

SegmentInputs ==
    {[op |-> "input", pattern |-> parseSegments(p), path |-> splitPath(q), maxIter |-> n] :
        p \in SegmentPatterns, q \in SegmentPaths, n \in Ceilings}

InitSegments == Fresh /\ call \in SegmentInputs

CallMatchSegmentsExact ==
    /\ call.op = "input"
    /\ LET m == matchSegmentsExact(call.pattern, call.path,
                                   newMatchContext(call.maxIter), FALSE)
       IN  /\ call' = [call EXCEPT !.op = "matchSegmentsExact"]
           /\ ret' = [NoReturn EXCEPT !.isNil = FALSE, !.ok = m.ok,
                                      !.iterations = m.ctx.iterations]
    /\ UNCHANGED <<mu, procs, goos, opts, rules, warnings, handler, delivered>>

CallMatchSegmentsPrefix ==
    /\ call.op = "input"
    /\ LET m == matchSegmentsPrefix(call.pattern, call.path,
                                    newMatchContext(call.maxIter), FALSE)
       IN  /\ call' = [call EXCEPT !.op = "matchSegmentsPrefix"]
           /\ ret' = [NoReturn EXCEPT !.isNil = FALSE, !.ok = m.ok,
                                      !.iterations = m.ctx.iterations]
    /\ UNCHANGED <<mu, procs, goos, opts, rules, warnings, handler, delivered>>

NextSegments == CallMatchSegmentsExact \/ CallMatchSegmentsPrefix

SpecSegments == InitSegments /\ [][NextSegments]_vars

\* no tick of the call failed
Sufficient ==
    call.maxIter < 0 \/ ret.iterations <= newMatchContext(call.maxIter).maxIter

ExactCall(p, q) ==
    /\ call.op = "matchSegmentsExact"
    /\ call.maxIter = 0
    /\ call.pattern = parseSegments(p)
    /\ call.path = splitPath(q)

\* C7: with sufficient budget, matchSegmentsExact holds exactly when each
\* double-star of the pattern can be given a possibly empty run of
\* consecutive path segments and every other pattern segment one path
\* segment that it matches, in order, covering the whole path. a/**/b
\* matches a/b, a/x/b and a/x/y/z/b; **/foo matches foo and a/b/foo; foo/**
\* matches foo/bar and foo/a/b/c.
C7_DoubleStar ==
    /\ (call.op = "matchSegmentsExact" /\ Sufficient) =>
          (ret.ok <=> ExactRef(call.pattern, call.path))
    /\ \A q \in {AB, AXB, AXYZB} : ExactCall(A_SS_B, q) => ret.ok
    /\ \A q \in {Foo, ABFoo} : ExactCall(SS_Foo, q) => ret.ok
    /\ \A q \in {FooBar, FooABC} : ExactCall(Foo_SS, q) => ret.ok

\* a/**/b has matched a/x/y/z/b: the double-star took three segments
C7_Witness == ExactCall(A_SS_B, AXYZB) /\ ret.ok /\ Sufficient

-----------------------------------------------------------------------------
(* Direct calls of matchSingleSegment with a bracket expression *)

LowerChars ==
    {"a","b","c","d","e","f","g","h","i","j","k","l","m",
     "n","o","p","q","r","s","t","u","v","w","x","y","z"}
UpperChars ==
    {"A","B","C","D","E","F","G","H","I","J","K","L","M",
     "N","O","P","Q","R","S","T","U","V","W","X","Y","Z"}
DigitChars == {"0","1","2","3","4","5","6","7","8","9"}
PunctChars ==
    {"!","\"","#","$","%","&","'","(",")","*","+",",","-",".","/",":",";","<","=",">",
     "?","@","[","\\","]","^","_","{","|","}","~"}

\* the characters of each of the 12 named classes, among those of Ord
PosixSet(name) ==
    CASE name = <<"a","l","p","h","a">> -> LowerChars \cup UpperChars
      [] name = <<"d","i","g","i","t">> -> DigitChars
      [] name = <<"a","l","n","u","m">> -> LowerChars \cup UpperChars \cup DigitChars
      [] name = <<"u","p","p","e","r">> -> UpperChars
      [] name = <<"l","o","w","e","r">> -> LowerChars
      [] name = <<"s","p","a","c","e">> -> {" ", "\t", "\n", "\r"}
      [] name = <<"b","l","a","n","k">> -> {" ", "\t"}
      [] name = <<"p","r","i","n","t">> ->
            LowerChars \cup UpperChars \cup DigitChars \cup PunctChars \cup {" "}
      [] name = <<"g","r","a","p","h">> ->
            LowerChars \cup UpperChars \cup DigitChars \cup PunctChars
      [] name = <<"p","u","n","c","t">> -> PunctChars
      [] name = <<"c","n","t","r","l">> -> {"\t", "\n", "\r"}
      [] name = <<"x","d","i","g","i","t">> ->
            DigitChars \cup {"a","b","c","d","e","f"} \cup {"A","B","C","D","E","F"}

\* the members of a bracket expression: a single character, an inclusive
\* range, a named class
CharItem(c)      == [kind |-> "char", lo |-> c, hi |-> c, name |-> <<>>]
RangeItem(lo, hi) == [kind |-> "range", lo |-> lo, hi |-> hi, name |-> <<>>]
PosixItem(name)  == [kind |-> "posix", lo |-> "a", hi |-> "a", name |-> name]

\* the text of a member
Render(item) ==
    CASE item.kind = "char"  -> <<item.lo>>
      [] item.kind = "range" -> <<item.lo, "-", item.hi>>
      [] item.kind = "posix" -> <<"[", ":">> \o item.name \o <<":", "]">>

\* the characters a member stands for
MembersOf(item) ==
    CASE item.kind = "char"  -> {item.lo}
      [] item.kind = "range" ->
            {ch \in DOMAIN Ord : Ord[item.lo] <= Ord[ch] /\ Ord[ch] <= Ord[item.hi]}
      [] item.kind = "posix" -> PosixSet(item.name)

RECURSIVE RenderAll(_)
RenderAll(items) == IF items = <<>> THEN <<>> ELSE Render(items[1]) \o RenderAll(Tail(items))

ItemA == CharItem("a")
ItemB == CharItem("b")
ItemC == CharItem("c")
RangeAC == RangeItem("a", "c")
Range09 == RangeItem("0", "9")

SingleItems ==
    {ItemA, ItemB, ItemC, RangeAC, Range09, RangeItem("c", "a")}
        \cup {PosixItem(n) : n \in PosixNames}

PairItems ==
    {ItemA, ItemB, RangeAC, Range09,
     PosixItem(<<"d","i","g","i","t">>), PosixItem(<<"u","p","p","e","r">>)}

ItemLists ==
    {<<i>> : i \in SingleItems} \cup {<<i, j>> : i \in PairItems, j \in PairItems}
        \cup {<<ItemA, ItemB, ItemC>>}

DotTxt == <<".","t","x","t">>

\* the candidate characters: none of them is a slash
CandChars ==
    {"a","b","c","d","f","g","z","A","F","Z","0","5","9","-","_"," ",".","!","^","[","]","~","\t"}

Candidates ==
    {<<ch>> : ch \in CandChars} \cup {<<"b">> \o DotTxt, <<"d">> \o DotTxt}
        \cup {<<>>, <<"a","b">>}

\* bracket expressions that are never closed
Unclosed == {<<"[">>, <<"[","a">>, <<"[","a","b","c">>, <<"x","[","y">>,
             <<"[","!","a">>, <<"[","a","-","c">>}

GlobInputs ==
    {[op |-> "input", kind |-> "class", neg |-> neg, items |-> items, suffix |-> suffix,
      pattern |-> <<"[">> \o neg \o RenderAll(items) \o <<"]">> \o suffix,
      path |-> cand, maxIter |-> 0] :
        neg \in {<<>>, <<"!">>, <<"^">>}, items \in ItemLists,
        suffix \in {<<>>, DotTxt}, cand \in Candidates}
    \cup
    {[op |-> "input", kind |-> "unclosed", neg |-> <<>>, items |-> <<>>, suffix |-> <<>>,
      pattern |-> p, path |-> cand, maxIter |-> 0] :
        p \in Unclosed, cand \in Candidates \cup Unclosed}

InitGlob == Fresh /\ call \in GlobInputs

\* the pattern text becomes a segment as parseSegments builds it, and is
\* matched against the candidate segment
CallMatchSingleSegment ==
    /\ call.op = "input"
    /\ LET m == matchSingleSegment(Classify(call.pattern), call.path, FALSE,
                                   newMatchContext(call.maxIter))
       IN  /\ call' = [call EXCEPT !.op = "matchSingleSegment"]
           /\ ret' = [NoReturn EXCEPT !.isNil = FALSE, !.ok = m.ok,
                                      !.iterations = m.ctx.iterations]
    /\ UNCHANGED <<mu, procs, goos, opts, rules, warnings, handler, delivered>>

NextGlob == CallMatchSingleSegment

SpecGlob == InitGlob /\ [][NextGlob]_vars

\* ch is in the class of the call
InClass(ch) == \E k \in 1..Len(call.items) : ch \in MembersOf(call.items[k])

Called(p, cand) ==
    call.op = "matchSingleSegment" /\ call.pattern = p /\ call.path = cand

OneChars == {c \in Candidates : Len(c) = 1}

-----------------------------------------------------------------------------
(* Matchers with a small ceiling *)

DeepLine == <<"*","*","/","*","*","/","a">>

\* "**/**/a\n*.log"
DeepThenLog == DeepLine \o <<"\n">> \o LogLine

BudgetBatches ==
    {[basePath |-> Root, isNil |-> FALSE, content |-> DeepThenLog],
     [basePath |-> Root, isNil |-> FALSE, content |-> DeepLine],
     [basePath |-> Root, isNil |-> FALSE, content |-> LogLine],
     [basePath |-> Root, isNil |-> FALSE, content |-> NotLogLine]}

BudgetQueries ==
    {[path |-> DebugLog, isDir |-> FALSE],
     [path |-> SrcDebugLog, isDir |-> FALSE],
     [path |-> <<"a">>, isDir |-> TRUE]}

InitBudget ==
    /\ goos = "linux"
    /\ opts \in {NewWithOptions([MaxBacktrackIterations |-> n, CaseInsensitive |-> FALSE]) :
                    n \in {0, SmallCeiling}}
    /\ rules = <<>>
    /\ warnings = <<>>
    /\ handler = "nil"
    /\ delivered = <<>>
    /\ mu = NoLock
    /\ procs = NoProcs
    /\ call = NoCall
    /\ ret = NoReturn

NextBudget ==
    \/ \E b \in BudgetBatches : AddPatterns(b)
    \/ \E q \in BudgetQueries : MatchWithReason(q.path, q.isDir)
    \/ \E q \in BudgetQueries : Match(q.path, q.isDir)

SpecBudget == InitBudget /\ [][NextBudget]_vars

\* a tick fails while stored rule i is evaluated for the query in call
Exhausts(i) ==
    LET m == matchRule(rules[i], QueryPath, splitPath(QueryPath), call.isDir,
                       opts.CaseInsensitive, newMatchContext(opts.MaxBacktrackIterations))
    IN  m.ctx.maxIter >= 0 /\ m.ctx.iterations > m.ctx.maxIter

Exhausting == {i \in 1..Len(rules) : Exhausts(i)}

FirstOf(S) == CHOOSE i \in S : \A j \in S : i <= j

\* the rules that matched before the first failed tick of the query
MatchedBefore == {j \in Matching : j < FirstOf(Exhausting)}

\* C10: once a tick has failed in a query, matchRule returns false for the
\* rule in progress and for every rule evaluated later in that query, so the
\* decision of Match and MatchWithReason comes only from the rules that
\* matched before the exhaustion.
C10_StickyAcrossRules ==
    (call.op \in {"Match", "MatchWithReason"} /\ QueryPath # <<>> /\ Exhausting # {}) =>
        /\ \A j \in Matching : j < FirstOf(Exhausting)
        /\ call.op = "Match" =>
             (ret.ignored <=>
                (MatchedBefore # {} /\ ~rules[LastOf(MatchedBefore)].negate))
        /\ call.op = "MatchWithReason" =>
             ret.result = IF MatchedBefore = {} THEN NoMatch
                          ELSE Decide(rules[LastOf(MatchedBefore)])

\* the part of C10 about the rule in progress: it holds
C10_StickyWithinRule ==
    (call.op \in {"Match", "MatchWithReason"} /\ QueryPath # <<>>) =>
        \A i \in Exhausting : i \notin Matching

-----------------------------------------------------------------------------
(* A match context on its own: created with a ceiling, then ticked *)

\* Bound of the model: the ticks made on one context
MaxTicks == 12

ContextCeilings == (-2)..(SmallCeiling + 4)

\* ret.iterations is the counter of the context, call.maxIter the ceiling it
\* was created with, ret.ok what the last tick returned
InitContext ==
    /\ Fresh
    /\ \E n \in ContextCeilings :
         call = [op |-> "newMatchContext", maxIter |-> n,
                 ctx |-> newMatchContext(n)]

CallTick ==
    /\ call.ctx.iterations < MaxTicks
    /\ LET t == tick(call.ctx) IN
       /\ call' = [call EXCEPT !.op = "tick", !.ctx = t.ctx]
       /\ ret' = [NoReturn EXCEPT !.isNil = FALSE, !.ok = t.ok,
                                  !.iterations = t.ctx.iterations]
    /\ UNCHANGED <<mu, procs, goos, opts, rules, warnings, handler, delivered>>

NextContext == CallTick

SpecContext == InitContext /\ [][NextContext]_vars

\* the part of C11 about one context: a ceiling of 0 becomes the default,
\* tick number k of a context with a positive ceiling N succeeds exactly
\* when k <= N, and no tick of a context with a negative ceiling fails
C11_ContextCeiling ==
    /\ call.maxIter = 0 => call.ctx.maxIter = DefaultMaxBacktrackIterations
    /\ call.maxIter # 0 => call.ctx.maxIter = call.maxIter
    /\ call.op = "tick" =>
         (ret.ok <=> (call.maxIter < 0 \/ ret.iterations <= call.ctx.maxIter))

\* the ticks made while stored rule i is evaluated for the query in call
RuleTicks(i) ==
    matchRule(rules[i], QueryPath, splitPath(QueryPath), call.isDir,
              opts.CaseInsensitive, newMatchContext(opts.MaxBacktrackIterations)).ctx.iterations

Min(a, b) == IF a <= b THEN a ELSE b

RECURSIVE QueryTicks(_), QueryTicksOk(_)
\* the ticks of the query in call made by the first n rules
QueryTicks(n) == IF n = 0 THEN 0 ELSE QueryTicks(n - 1) + RuleTicks(n)

\* those of them that succeeded
QueryTicksOk(n) ==
    IF n = 0 THEN 0
    ELSE QueryTicksOk(n - 1) + Min(RuleTicks(n), opts.MaxBacktrackIterations)

\* C11: a configured ceiling of 0 is replaced by the default 10000, and with
\* a positive ceiling N exactly the first N ticks of a query succeed and
\* every later tick fails.
C11_CeilingConfiguration ==
    /\ opts.MaxBacktrackIterations # 0
    /\ (call.op \in {"Match", "MatchWithReason"} /\ QueryPath # <<>>
          /\ opts.MaxBacktrackIterations > 0) =>
         QueryTicksOk(Len(rules)) = Min(QueryTicks(Len(rules)), opts.MaxBacktrackIterations)

-----------------------------------------------------------------------------
(* Direct calls of matchRule, with patterns and paths that make it
   backtrack *)

\* "a/**/b/**/c/**/d"
PathologicalLine ==
    <<"a","/","*","*","/","b","/","*","*","/","c","/","*","*","/","d">>
\* "*a*a*b"
StarsLine == <<"*","a","*","a","*","b">>

BacktrackLines == {PathologicalLine, StarsLine, DeepLine, LogLine, BuildDirLine}

\* "a/b/c/a/b/c/a/b/c/x": no d at the end
LongPath ==
    <<"a","/","b","/","c","/","a","/","b","/","c","/","a","/","b","/","c","/","x">>
\* "A/x/b/x/c/x/d"
MixedCasePath == <<"A","/","x","/","b","/","x","/","c","/","x","/","d">>
\* "a/x/b/x/c/x/d"
LowerCasePath == <<"a","/","x","/","b","/","x","/","c","/","x","/","d">>
ManyAs == <<"a","a","a","a","a","a","a","a","c">>

BacktrackPaths == {LongPath, MixedCasePath, LowerCasePath, ManyAs, SrcDebugLog}

\* Bound of the model: the largest finite ceiling of the direct calls
LargeCeiling == 25

RuleCeilings == {-1, 0, 1, SmallCeiling, LargeCeiling}

MatchRuleInputs ==
    {[op |-> "input", rule |-> parseLines("linux", Root, line).rules[1],
      path |-> path, isDir |-> d, caseInsensitive |-> ci, maxIter |-> n] :
        line \in BacktrackLines, path \in BacktrackPaths, d \in BOOLEAN,
        ci \in BOOLEAN, n \in RuleCeilings}

InitMatchRule == Fresh /\ call \in MatchRuleInputs

\* matchRule on the arguments in call, with a context of ceiling maxIter
RunMatchRule(maxIter) ==
    matchRule(call.rule, call.path, splitPath(call.path), call.isDir,
              call.caseInsensitive, newMatchContext(maxIter))

CallMatchRule ==
    /\ call.op = "input"
    /\ \E m \in {RunMatchRule(call.maxIter)} :
           /\ call' = [call EXCEPT !.op = "matchRule"]
           /\ ret' = [NoReturn EXCEPT !.isNil = FALSE, !.ok = m.ok,
                                      !.iterations = m.ctx.iterations]
    /\ UNCHANGED <<mu, procs, goos, opts, rules, warnings, handler, delivered>>

NextMatchRule == CallMatchRule

SpecMatchRule == InitMatchRule /\ [][NextMatchRule]_vars

\* the step of a call that returns to its caller
Returns == call.op = "input" /\ call' = [call EXCEPT !.op = "matchRule"]

\* the calling goroutine keeps running: a call that can return does return
SpecMatchRuleFair == SpecMatchRule /\ WF_call(Returns)

\* the ceiling of the context of the call
CallCeiling == newMatchContext(call.maxIter).maxIter

\* the ticks a call can make after its first failed tick: each loop it is
\* in ticks at most once more, and a pattern has a loop per star at most,
\* besides the loop over the start offsets and the call that follows it
Overrun == Count(call.rule.pattern, "*") + 2

\* C12: every call of matchRule returns, under every ceiling including the
\* unlimited one; under a finite ceiling N it makes at most N ticks and the
\* few of the loops it leaves, and a call that ran out of budget returns
\* false. The pattern a/**/b/**/c/**/d on a long path without d returns
\* false under every ceiling.
C12_Termination ==
    /\ (call.op = "input") ~> (call.op = "matchRule")
    /\ [](call.op = "matchRule" =>
            /\ CallCeiling >= 0 => ret.iterations <= CallCeiling + Overrun
            /\ (CallCeiling >= 0 /\ ret.iterations > CallCeiling) => ~ret.ok
            /\ (call.rule.pattern = PathologicalLine /\ call.path = LongPath) => ~ret.ok)

\* the pathological pattern has run out of a finite budget on the long
\* path and returned false
C12_Witness ==
    /\ call.op = "matchRule"
    /\ call.rule.pattern = PathologicalLine
    /\ call.path = LongPath
    /\ call.maxIter = LargeCeiling
    /\ ret.iterations > LargeCeiling
    /\ ~ret.ok

\* C13: for every rule, path, directory flag and case mode, if matchRule
\* returns true under a finite ceiling then it returns true with an
\* unlimited budget.
C13_UnderMatchOnly ==
    (call.op = "matchRule" /\ call.maxIter > 0 /\ ret.ok) => RunMatchRule(-1).ok

\* a match under the large ceiling that the small ceiling would have cut
\* short
C13_Witness ==
    /\ call.op = "matchRule"
    /\ call.maxIter = LargeCeiling
    /\ ret.ok
    /\ ~RunMatchRule(SmallCeiling).ok


-----------------------------------------------------------------------------
(* Warnings: the handler and the collected list *)

\* "*.log\n\\\nbuild/": a line ending in a backslash between two rules
RuleWarningRule == LogLine \o <<"\n", "\\", "\n">> \o BuildDirLine

\* the (scope, content) pairs of the batches with malformed lines
WarningBatches ==
    {[basePath |-> Root, isNil |-> TRUE, content |-> <<>>],
     [basePath |-> Root, isNil |-> FALSE, content |-> <<"!">>],
     [basePath |-> Root, isNil |-> FALSE, content |-> LogLine],
     [basePath |-> <<"s","r","c","/">>, isNil |-> FALSE, content |-> TwoWarnings],
     [basePath |-> Root, isNil |-> FALSE, content |-> RuleWarningRule]}

NextWarnings ==
    \/ \E fn \in Handlers : SetWarningHandler(fn)
    \/ \E b \in WarningBatches : AddPatterns(b)
    \/ Warnings

SpecWarnings == Init /\ [][NextWarnings]_vars

\* the warnings parseLines returns for the batch of the call just made
WarningsOf(c) == parseLines(goos, c.basePath, c.content).warnings

InLineOrder(ws) == \A i, j \in 1..Len(ws) : i < j => ws[i].Line < ws[j].Line

\* the handler call for warning w of an AddPatterns call c
Delivery(fn, c, w) == [fn |-> fn, basePath |-> c.basePath, warning |-> w]

\* C14: the warnings of one AddPatterns call with content go to one sink.
\* With a handler registered the handler is called once per warning, in line
\* order, with the scope the call was given; AddPatterns returns nil and the
\* collected list stays as it was. With no handler the warnings are appended
\* to the collected list in line order and returned, and no handler is
\* called.
C14_WarningRouting ==
    [][(call'.op = "AddPatterns" /\ ~call'.isNilContent) =>
          LET ws == WarningsOf(call') IN
          /\ InLineOrder(ws)
          /\ IF handler # "nil"
             THEN /\ Len(delivered') = Len(delivered) + Len(ws)
                  /\ SubSeq(delivered', 1, Len(delivered)) = delivered
                  /\ \A k \in 1..Len(ws) :
                        delivered'[Len(delivered) + k] = Delivery(handler, call', ws[k])
                  /\ ret'.isNil
                  /\ ret'.warns = <<>>
                  /\ warnings' = warnings
             ELSE /\ warnings' = warnings \o ws
                  /\ ret'.warns = ws
                  /\ delivered' = delivered]_vars

\* a batch with two malformed lines added while a handler is registered,
\* after a batch with a rule: two handler calls in line order, nothing
\* collected, nil returned
C14_Witness ==
    /\ call.op = "AddPatterns"
    /\ handler = "h1"
    /\ Len(WarningsOf(call)) = 2
    /\ Len(delivered) = 2
    /\ delivered[1].warning.Line < delivered[2].warning.Line
    /\ delivered[1].basePath = call.basePath
    /\ warnings = <<>>
    /\ ret.isNil
    /\ Len(rules) = 1

\* C15: SetWarningHandler changes the handler and nothing else: the
\* collected warnings and the rules stay, no handler is called for a warning
\* collected earlier (handler calls come only from an AddPatterns call made
\* while a handler is registered, for the warnings of that call), and
\* Warnings() returns the whole collected list whatever the handler is.
C15_NotRetroactive ==
    [][/\ call'.op = "SetWarningHandler" =>
             /\ handler' = call'.fn
             /\ warnings' = warnings
             /\ rules' = rules
             /\ delivered' = delivered
       /\ SubSeq(warnings', 1, Len(warnings)) = warnings
       /\ delivered' # delivered =>
             /\ call'.op = "AddPatterns"
             /\ handler # "nil"
             /\ warnings' = warnings
             /\ delivered' = delivered \o Deliveries(handler, call'.basePath, WarningsOf(call'))
       /\ call'.op = "Warnings" => (ret'.warns = warnings /\ warnings' = warnings)]_vars

\* Warnings() after the switch to a handler: the warning collected before
\* it is returned, and the handler has been called for a later one only
C15_Witness ==
    /\ call.op = "Warnings"
    /\ handler = "h1"
    /\ Len(ret.warns) = 1
    /\ ret.warns = warnings
    /\ Len(delivered) = 1
    /\ delivered[1].warning # warnings[1]


\* C20: AddPatterns with nil content returns nil and changes nothing: no
\* rule is appended, no warning is recorded, no handler is called, and the
\* registered handler stays.
C20_NilContentNoOp ==
    [][(call'.op = "AddPatterns" /\ call'.isNilContent) =>
          /\ ret'.isNil
          /\ ret'.warns = <<>>
          /\ rules' = rules
          /\ warnings' = warnings
          /\ delivered' = delivered
          /\ handler' = handler]_vars

\* AddPatterns(nil) on a matcher that has a rule, a collected warning and a
\* handler
C20_Witness ==
    /\ call.op = "AddPatterns"
    /\ call.isNilContent
    /\ ret.isNil
    /\ Len(rules) > 0
    /\ Len(warnings) > 0
    /\ handler = "h1"

-----------------------------------------------------------------------------
(* The Matcher shared by goroutines: every method as the steps it takes     *)
(* between its lock operations                                              *)

\* Bound of the model: the calls the goroutines make, all together
MaxCalls == 3

\* the handlers that call back into the matcher they are registered with
Reentrant == {"hMatch", "hMatchWithReason", "hRuleCount", "hWarnings", "hAddPatterns"}

\* the call a reentrant handler makes
HandlerCall(fn) ==
    CASE fn = "hMatch" -> [NoCall EXCEPT !.op = "Match", !.path = DebugLog]
      [] fn = "hMatchWithReason" -> [NoCall EXCEPT !.op = "MatchWithReason", !.path = DebugLog]
      [] fn = "hRuleCount" -> [NoCall EXCEPT !.op = "RuleCount"]
      [] fn = "hWarnings" -> [NoCall EXCEPT !.op = "Warnings"]
      [] fn = "hAddPatterns" -> [NoCall EXCEPT !.op = "AddPatterns", !.content = LogLine]

QueryOps == {"Match", "MatchWithReason"}

\* where a method begins
EntryPc(op) ==
    CASE op = "AddPatterns" -> "parse"
      [] op \in QueryOps -> "normalize"
      [] op = "SetWarningHandler" -> "Lock"
      [] op \in {"Warnings", "RuleCount"} -> "RLock"

\* the frame of a call: its arguments, its position, its local variables
\* (parsed: newRules and parseWarnings; path: the normalized path; n and i:
\* the range over m.rules; k: the range over parseWarnings), what it
\* returns, and for the properties the index its rules were stored at, the
\* number of its Lock among all, the ticks it made, the number of the
\* call among those of its goroutine and the handler that was registered
\* when parseLines returned
NewFrame(c, serial) ==
    [call |-> c, pc |-> EntryPc(c.op), parsed |-> NoRule(<<>>), path |-> <<>>,
     n |-> 0, i |-> 0, k |-> 0, ret |-> NoReturn,
     at |-> 0, epoch |-> 0, ticks |-> 0, serial |-> serial, sink |-> "nil"]

\* the frame on top of the stack of goroutine g
Top(g) == procs[g][Len(procs[g])]

\* goroutine g is at pc in a call of one of ops
Running(g, pc, ops) ==
    /\ procs[g] # <<>>
    /\ Top(g).pc = pc
    /\ Top(g).call.op \in ops

AllOps == {"AddPatterns", "SetWarningHandler", "Warnings", "RuleCount"} \cup QueryOps

\* the calls goroutine g has made
Calls(g) == IF procs[g] = <<>> THEN 0 ELSE procs[g][1].serial

\* goroutine g goes on in its call with frame f
Step(g, f) == procs' = [procs EXCEPT ![g] = SubSeq(procs[g], 1, Len(procs[g]) - 1) \o <<f>>]

\* the call of goroutine g returns with frame f: to the goroutine, or to the
\* AddPatterns that called the handler, which goes on to the next warning
Return(g, f) ==
    procs' = [procs EXCEPT ![g] =
                IF Len(procs[g]) = 1 THEN <<[f EXCEPT !.pc = "done"]>>
                ELSE LET caller == procs[g][Len(procs[g]) - 1]
                     IN  SubSeq(procs[g], 1, Len(procs[g]) - 2)
                           \o <<[caller EXCEPT !.k = @ + 1, !.pc = "deliver"]>>]

\* goroutine g calls a method of the matcher
Go(g, c) ==
    /\ procs[g] = <<>> \/ (Len(procs[g]) = 1 /\ Top(g).pc = "done")
    /\ Calls(1) + Calls(2) < MaxCalls
    /\ procs' = [procs EXCEPT ![g] = <<NewFrame(c, Calls(g) + 1)>>]
    /\ UNCHANGED <<goos, opts, rules, warnings, handler, delivered, call, ret, mu>>

\* AddPatterns before the lock: the nil check and parseLines
Parse(g) ==
    /\ Running(g, "parse", {"AddPatterns"})
    /\ LET f == Top(g) IN
         IF f.call.isNilContent
         THEN Return(g, [f EXCEPT !.ret = NoReturn])
         ELSE Step(g, [f EXCEPT !.pc = "Lock", !.sink = handler,
                                !.parsed = parseLines(goos, f.call.basePath, f.call.content)])
    /\ UNCHANGED <<goos, opts, rules, warnings, handler, delivered, call, ret, mu>>

\* MatchWithReason before the lock: normalizePath and the empty path
Normalize(g) ==
    /\ Running(g, "normalize", QueryOps)
    /\ LET f    == Top(g)
           path == normalizePath(goos, f.call.path)
       IN  IF path = <<>>
           THEN Return(g, [f EXCEPT !.ret = [NoReturn EXCEPT !.isNil = FALSE]])
           ELSE Step(g, [f EXCEPT !.pc = "RLock", !.path = path])
    /\ UNCHANGED <<goos, opts, rules, warnings, handler, delivered, call, ret, mu>>

\* m.mu.Lock(), first half: the writer mutex, which shuts new readers out
LockRequest(g) ==
    /\ Running(g, "Lock", AllOps)
    /\ mu.w = 0
    /\ mu' = [mu EXCEPT !.w = g]
    /\ Step(g, [Top(g) EXCEPT !.pc = "Locking"])
    /\ UNCHANGED <<goos, opts, rules, warnings, handler, delivered, call, ret>>

\* m.mu.Lock(), second half: the readers have left
LockAcquire(g) ==
    /\ Running(g, "Locking", AllOps)
    /\ mu.w = g
    /\ mu.readers = {}
    /\ mu' = [mu EXCEPT !.writing = TRUE, !.acquired = @ + 1]
    /\ Step(g, [Top(g) EXCEPT !.pc = "cs", !.epoch = mu.acquired + 1])
    /\ UNCHANGED <<goos, opts, rules, warnings, handler, delivered, call, ret>>

\* RLock that does not wait for a writer
RLockNoWait(g) ==
    /\ Running(g, "RLock", AllOps)
    /\ mu' = [mu EXCEPT !.readers = @ \cup {g}]
    /\ Step(g, [Top(g) EXCEPT !.pc = "cs", !.n = Len(rules), !.i = 1])
    /\ UNCHANGED <<goos, opts, rules, warnings, handler, delivered, call, ret>>

\* m.mu.RLock(), and for a query the range over m.rules it begins
RLock(g) ==
    /\ Running(g, "RLock", AllOps)
    /\ mu.w = 0
    /\ mu' = [mu EXCEPT !.readers = @ \cup {g}]
    /\ Step(g, [Top(g) EXCEPT !.pc = "cs", !.n = Len(rules), !.i = 1])
    /\ UNCHANGED <<goos, opts, rules, warnings, handler, delivered, call, ret>>

\* AddPatterns under the lock: the append, and the warnings when no handler
\* is registered
Store(g) ==
    /\ Running(g, "cs", {"AddPatterns"})
    /\ LET f == Top(g) IN
         /\ rules' = Stored(rules, f.parsed.rules)
         /\ IF handler # "nil"
            THEN /\ Step(g, [f EXCEPT !.pc = "deliver", !.at = Len(rules), !.k = 1])
                 /\ UNCHANGED warnings
            ELSE /\ warnings' = warnings \o f.parsed.warnings
                 /\ Step(g, [f EXCEPT !.pc = "Unlock", !.at = Len(rules),
                                      !.ret = [NoReturn EXCEPT
                                                 !.isNil = (f.parsed.warnings = <<>>),
                                                 !.warns = f.parsed.warnings]])
    /\ UNCHANGED <<goos, opts, handler, delivered, call, ret, mu>>

\* AddPatterns under the lock: the range over parseWarnings, one call of the
\* handler; a reentrant handler makes its call on the same goroutine
Deliver(g) ==
    /\ Running(g, "deliver", {"AddPatterns"})
    /\ LET f == Top(g) IN
         IF f.k > Len(f.parsed.warnings)
         THEN /\ Step(g, [f EXCEPT !.pc = "Unlock", !.ret = NoReturn])
              /\ UNCHANGED delivered
         ELSE /\ delivered' = delivered \o
                     Deliveries(handler, f.call.basePath, <<f.parsed.warnings[f.k]>>)
              /\ IF handler \in Reentrant
                 THEN procs' = [procs EXCEPT ![g] =
                                  SubSeq(procs[g], 1, Len(procs[g]) - 1)
                                    \o <<[f EXCEPT !.pc = "handler"],
                                         NewFrame(HandlerCall(handler), f.serial)>>]
                 ELSE Step(g, [f EXCEPT !.k = @ + 1])
    /\ UNCHANGED <<goos, opts, rules, warnings, handler, call, ret, mu>>

\* SetWarningHandler under the lock
SetHandler(g) ==
    /\ Running(g, "cs", {"SetWarningHandler"})
    /\ handler' = Top(g).call.fn
    /\ Step(g, [Top(g) EXCEPT !.pc = "Unlock", !.ret = NoReturn])
    /\ UNCHANGED <<goos, opts, rules, warnings, delivered, call, ret, mu>>

\* Warnings under the lock
CopyWarnings(g) ==
    /\ Running(g, "cs", {"Warnings"})
    /\ Step(g, [Top(g) EXCEPT !.pc = "RUnlock",
                              !.ret = [NoReturn EXCEPT !.isNil = (Len(warnings) = 0),
                                                       !.warns = warnings]])
    /\ UNCHANGED <<goos, opts, rules, warnings, handler, delivered, call, ret, mu>>

\* RuleCount under the lock
ReadRuleCount(g) ==
    /\ Running(g, "cs", {"RuleCount"})
    /\ Step(g, [Top(g) EXCEPT !.pc = "RUnlock",
                              !.ret = [NoReturn EXCEPT !.isNil = FALSE, !.count = Len(rules)]])
    /\ UNCHANGED <<goos, opts, rules, warnings, handler, delivered, call, ret, mu>>

\* the context shared by every rule evaluation of every goroutine
EvalContextShared(g) ==
    LET h == CHOOSE x \in Goroutines : x # g
    IN  [newMatchContext(opts.MaxBacktrackIterations) EXCEPT
           !.iterations = IF procs[h] = <<>> THEN 0 ELSE procs[h][1].ticks]

\* the match context of one rule evaluation of goroutine g
EvalContext(g) == newMatchContext(opts.MaxBacktrackIterations)

\* MatchWithReason: the call of matchRule for rule r in the frame f of
\* goroutine g
RuleMatch(g, f, r) ==
    matchRule(r, f.path, splitPath(f.path), f.call.isDir, opts.CaseInsensitive,
              EvalContext(g))

\* MatchWithReason under the lock: one iteration of the loop over m.rules,
\* or its end
EvalRule(g) ==
    /\ Running(g, "cs", QueryOps)
    /\ LET f == Top(g) IN
         IF f.i > f.n
         THEN Step(g, [f EXCEPT !.pc = "RUnlock", !.ret.isNil = FALSE,
                                !.ret.ignored = f.ret.result.Ignored])
         ELSE \E m \in {RuleMatch(g, f, rules[f.i])} :
                  Step(g, [f EXCEPT !.i = @ + 1,
                                    !.ticks = @ + m.ctx.iterations - EvalContext(g).iterations,
                                    !.ret.result = IF m.ok THEN Decide(rules[f.i]) ELSE @])
    /\ UNCHANGED <<goos, opts, rules, warnings, handler, delivered, call, ret, mu>>

\* the deferred m.mu.Unlock() and the return
Unlock(g) ==
    /\ Running(g, "Unlock", AllOps)
    /\ mu' = [mu EXCEPT !.w = 0, !.writing = FALSE]
    /\ Return(g, Top(g))
    /\ UNCHANGED <<goos, opts, rules, warnings, handler, delivered, call, ret>>

\* the deferred m.mu.RUnlock() and the return
RUnlock(g) ==
    /\ Running(g, "RUnlock", AllOps)
    /\ mu' = [mu EXCEPT !.readers = @ \ {g}]
    /\ Return(g, Top(g))
    /\ UNCHANGED <<goos, opts, rules, warnings, handler, delivered, call, ret>>

\* "!important.log\n!": a rule and a malformed line
RuleAndWarning == NotImportantLine \o <<"\n", "!">>

\* the calls the goroutines make
ConcurrentCalls ==
    {[NoCall EXCEPT !.op = "AddPatterns", !.content = DeepThenLog],
     [NoCall EXCEPT !.op = "AddPatterns", !.basePath = ScopeSrc, !.content = RuleAndWarning],
     [NoCall EXCEPT !.op = "AddPatterns", !.isNilContent = TRUE],
     [NoCall EXCEPT !.op = "SetWarningHandler", !.fn = "h1"],
     [NoCall EXCEPT !.op = "Warnings"],
     [NoCall EXCEPT !.op = "RuleCount"],
     [NoCall EXCEPT !.op = "Match", !.path = DebugLog],
     [NoCall EXCEPT !.op = "MatchWithReason", !.path = <<"a">>, !.isDir = TRUE],
     [NoCall EXCEPT !.op = "MatchWithReason", !.path = <<".", "/">>]}

\* a matcher with the default ceiling or a small one, not yet used
InitConcurrent == InitBudget

NextConcurrent ==
    \E g \in Goroutines :
        \/ \E c \in ConcurrentCalls : Go(g, c)
        \/ Parse(g)
        \/ Normalize(g)
        \/ LockRequest(g)
        \/ LockAcquire(g)
        \/ RLock(g)
        \/ Store(g)
        \/ Deliver(g)
        \/ SetHandler(g)
        \/ CopyWarnings(g)
        \/ ReadRuleCount(g)
        \/ EvalRule(g)
        \/ Unlock(g)
        \/ RUnlock(g)

SpecConcurrent == InitConcurrent /\ [][NextConcurrent]_vars

\* the lock: a writer excludes every reader
LockExclusion == mu.writing => (mu.w # 0 /\ mu.readers = {})


\* the calls of goroutines that register handlers which call the matcher
ReentrantCalls ==
    {[NoCall EXCEPT !.op = "AddPatterns", !.basePath = ScopeSrc, !.content = RuleAndWarning],
     [NoCall EXCEPT !.op = "Warnings"],
     [NoCall EXCEPT !.op = "RuleCount"],
     [NoCall EXCEPT !.op = "Match", !.path = DebugLog]}
      \cup {[NoCall EXCEPT !.op = "SetWarningHandler", !.fn = fn] : fn \in Reentrant \cup {"h1"}}

NextReentrant ==
    \E g \in Goroutines :
        \/ \E c \in ReentrantCalls : Go(g, c)
        \/ Parse(g)
        \/ Normalize(g)
        \/ LockRequest(g)
        \/ LockAcquire(g)
        \/ RLock(g)
        \/ Store(g)
        \/ Deliver(g)
        \/ SetHandler(g)
        \/ CopyWarnings(g)
        \/ ReadRuleCount(g)
        \/ EvalRule(g)
        \/ Unlock(g)
        \/ RUnlock(g)

SpecReentrant == Init /\ [][NextReentrant]_vars

\* goroutine g is inside a call of the handler
InHandler(g) == Len(procs[g]) = 2

\* goroutine g waits for a lock that it holds itself
SelfBlocked(g) ==
    /\ InHandler(g)
    /\ Top(g).pc \in {"Lock", "RLock"}
    /\ mu.w = g

\* C16: the handler is not called while the lock of the matcher is held, so
\* a handler that calls Match, MatchWithReason, RuleCount, Warnings or
\* AddPatterns of the same matcher is never left waiting for a lock that its
\* own goroutine holds.
C16_HandlerOutsideLock ==
    \A g \in Goroutines :
        /\ InHandler(g) => mu.w # g
        /\ ~SelfBlocked(g)

\* what does hold: whoever is inside a handler call holds the write lock
C16_HandlerUnderLock ==
    \A g \in Goroutines : InHandler(g) => (mu.w = g /\ mu.writing)


-----------------------------------------------------------------------------
(* Queries and batches of concurrent goroutines *)

\* the frames of goroutine g that belong to a query which has left its loop
\* over the rules
FinishedQuery(g) ==
    /\ procs[g] # <<>>
    /\ Top(g).call.op \in QueryOps
    /\ Top(g).pc \in {"RUnlock", "done"}

\* C17: what a query returns is MatchWithReason of the rules it found
\* stored, its path, its directory flag and the options, whatever the other
\* goroutine does and whatever budget other queries have used: every
\* evaluation starts from a count of zero.
C17_QueryIndependence ==
    \A g \in Goroutines :
        FinishedQuery(g) =>
            LET f == Top(g)
                expected == MatchWithReasonResult(goos, opts, SubSeq(rules, 1, f.n),
                                                  f.call.path, f.call.isDir)
            IN  /\ f.ret.result = expected
                /\ f.ret.ignored = expected.Ignored
                /\ EvalContext(g).iterations = 0

\* two queries hold the read lock together under the small ceiling: one has
\* finished with a match after a rule ran out of budget, the other has
\* spent ticks of its own
C17_Witness ==
    /\ opts.MaxBacktrackIterations = SmallCeiling
    /\ FinishedQuery(1)
    /\ Top(1).pc = "RUnlock"
    /\ Top(1).n = 2
    /\ Top(1).ticks > SmallCeiling
    /\ Top(1).ret.result.Matched
    /\ Running(2, "cs", QueryOps)
    /\ Top(2).ticks > 0
    /\ mu.readers = {1, 2}

\* the rules of the batches the goroutines add
BatchRules ==
    {parseLines(goos, c.basePath, c.content).rules :
        c \in {x \in ConcurrentCalls : x.op = "AddPatterns" /\ ~x.isNilContent}}

\* rs is made of whole batches, one after the other
RECURSIVE WholeBatches(_)
WholeBatches(rs) ==
    \/ rs = <<>>
    \/ \E b \in BatchRules :
          /\ b # <<>>
          /\ Len(b) <= Len(rs)
          /\ SubSeq(rs, Len(rs) - Len(b) + 1, Len(rs)) = b
          /\ WholeBatches(SubSeq(rs, 1, Len(rs) - Len(b)))

\* goroutine g is in a query that holds the read lock
Reading(g) ==
    /\ procs[g] # <<>>
    /\ Top(g).call.op \in QueryOps
    /\ Top(g).pc \in {"cs", "RUnlock"}

\* goroutine g is in an AddPatterns that has stored its rules
HasStored(g) ==
    /\ procs[g] # <<>>
    /\ procs[g][1].call.op = "AddPatterns"
    /\ procs[g][1].pc \in {"deliver", "handler", "Unlock", "done"}
    /\ procs[g][1].epoch > 0

\* goroutine g is in an AddPatterns that holds the write lock
Writing(g) ==
    /\ procs[g] # <<>>
    /\ procs[g][1].call.op = "AddPatterns"
    /\ procs[g][1].pc \in {"cs", "deliver", "handler", "Unlock"}

\* C18: no query evaluates rules while an AddPatterns holds the lock, and
\* the rules a query evaluates are whole batches, as is the store; the rules
\* of an AddPatterns call lie together in line order where the call put
\* them, and of two calls the one whose Lock returned first has its rules
\* first.
C18_BatchAtomicity ==
    /\ WholeBatches(rules)
    /\ \A g \in Goroutines :
          /\ Reading(g) => /\ WholeBatches(SubSeq(rules, 1, Top(g).n))
                           /\ \A h \in Goroutines : ~Writing(h)
          /\ HasStored(g) =>
                LET f == procs[g][1]
                IN  SubSeq(rules, f.at + 1, f.at + Len(f.parsed.rules)) = f.parsed.rules
    /\ \A g, h \in Goroutines :
          (HasStored(g) /\ HasStored(h) /\ procs[g][1].epoch < procs[h][1].epoch) =>
              procs[g][1].at + Len(procs[g][1].parsed.rules) <= procs[h][1].at

\* a query in the middle of its loop over a batch of two rules while an
\* AddPatterns with a rule of its own waits for the write lock
C18_Witness ==
    /\ Reading(1)
    /\ Top(1).pc = "cs"
    /\ Top(1).n = 2
    /\ Top(1).i = 2
    /\ Running(2, "Locking", {"AddPatterns"})
    /\ Len(Top(2).parsed.rules) = 1
    /\ mu.w = 2
    /\ ~mu.writing


-----------------------------------------------------------------------------
(* parseLines on batches of well-formed and malformed lines *)

\* Bound of the model: the lines of a batch
MaxLines == 3

\* lines of every kind: skipped (blank, comment), malformed (nothing left
\* after the markers, nothing left after the leading slash, an unescaped
\* backslash at the end), and patterns
LineKinds ==
    {[text |-> <<>>,                      kind |-> "skip"],
     [text |-> <<" ", " ">>,              kind |-> "skip"],
     [text |-> <<"#", "c">>,              kind |-> "skip"],
     [text |-> <<"!">>,                   kind |-> "malformed"],
     [text |-> <<"/">>,                   kind |-> "malformed"],
     [text |-> <<"/", "/">>,              kind |-> "malformed"],
     [text |-> <<"a", "\\">>,             kind |-> "malformed"],
     [text |-> LogLine,                   kind |-> "rule"],
     [text |-> <<"!", "a", " ">>,         kind |-> "rule"],
     [text |-> <<"\\", "#", "a">>,        kind |-> "rule"],
     [text |-> BuildDirLine,              kind |-> "rule"]}

LineTexts == {e.text : e \in LineKinds}

KindOf(text) == (CHOOSE e \in LineKinds : e.text = text).kind

\* the lines joined by newlines
RECURSIVE JoinLines(_)
JoinLines(ls) ==
    IF Len(ls) = 1 THEN ls[1] ELSE ls[1] \o <<"\n">> \o JoinLines(Tail(ls))

ParseInputs ==
    {[NoCall EXCEPT !.op = "input", !.basePath = ScopeSrc, !.content = JoinLines(ls)] :
        ls \in UNION {[1..n -> LineTexts] : n \in 1..MaxLines}}

InitParse == Fresh /\ call \in ParseInputs

CallParseLines ==
    /\ call.op = "input"
    /\ LET parsed == parseLines(goos, call.basePath, call.content)
       IN  /\ call' = [call EXCEPT !.op = "parseLines"]
           /\ ret' = [NoReturn EXCEPT !.isNil = FALSE, !.rules = parsed.rules,
                                      !.warns = parsed.warnings]
    /\ UNCHANGED <<mu, procs, goos, opts, rules, warnings, handler, delivered>>

NextParse == CallParseLines

SpecParse == InitParse /\ [][NextParse]_vars

\* the lines of the batch of the call
BatchLines == Split(call.content, "\n")

\* the numbers of the lines of a kind, from line j on, in order
RECURSIVE LinesOfKind(_, _, _)
LinesOfKind(ls, j, kind) ==
    IF j > Len(ls) THEN <<>>
    ELSE (IF KindOf(ls[j]) = kind THEN <<j>> ELSE <<>>) \o LinesOfKind(ls, j + 1, kind)

\* C19: every line of a batch is parsed on its own. A malformed line gives
\* one warning with its line number, counted from 1, and its text, and no
\* rule; a blank or comment line gives nothing; every other line gives its
\* rule, whatever the lines around it are. Warnings and rules come in line
\* order and carry the numbers of their lines.
C19_MalformedLines ==
    call.op = "parseLines" =>
        LET bad  == LinesOfKind(BatchLines, 1, "malformed")
            good == LinesOfKind(BatchLines, 1, "rule")
        IN  /\ Len(ret.warns) = Len(bad)
            /\ \A k \in 1..Len(bad) :
                  /\ ret.warns[k].Line = bad[k]
                  /\ ret.warns[k].Pattern = BatchLines[bad[k]]
            /\ Len(ret.rules) = Len(good)
            /\ \A k \in 1..Len(good) :
                  /\ ret.rules[k].line = good[k]
                  /\ ret.rules[k].pattern = trimTrailingWhitespace(BatchLines[good[k]])

\* a batch of a rule, a malformed line and a rule: the rules of lines 1 and
\* 3 and the warning of line 2
C19_Witness ==
    /\ call.op = "parseLines"
    /\ Len(BatchLines) = 3
    /\ KindOf(BatchLines[2]) = "malformed"
    /\ Len(ret.rules) = 2
    /\ ret.rules[1].line = 1
    /\ ret.rules[2].line = 3
    /\ Len(ret.warns) = 1
    /\ ret.warns[1].Line = 2


-----------------------------------------------------------------------------
(* Queries for paths that are empty once normalized *)

StarLine   == <<"*">>
NotStarLine == <<"!", "*">>
DoubleStarLine == <<"*", "*">>

\* rules that match every name, at the root and under src
EmptyPathBatches ==
    {[basePath |-> Root, isNil |-> FALSE, content |-> StarLine],
     [basePath |-> Root, isNil |-> FALSE, content |-> NotStarLine],
     [basePath |-> Root, isNil |-> FALSE, content |-> DoubleStarLine],
     [basePath |-> Root, isNil |-> FALSE, content |-> SlashesLine],
     [basePath |-> ScopeSrc, isNil |-> FALSE, content |-> StarLine]}

\* "", "./", "/", "//", ".//", "././"
EmptyPaths ==
    {<<>>, <<".", "/">>, <<"/">>, <<"/", "/">>, <<".", "/", "/">>,
     <<".", "/", ".", "/">>}

\* the paths of the queries: the empty ones, and "x" and "." for comparison
EmptyPathQueries == EmptyPaths \cup {<<"x">>, <<".">>}

NextEmptyPath ==
    \/ \E b \in EmptyPathBatches : AddPatterns(b)
    \/ \E path \in EmptyPathQueries, isDir \in BOOLEAN : Match(path, isDir)
    \/ \E path \in EmptyPathQueries, isDir \in BOOLEAN : MatchWithReason(path, isDir)

SpecEmptyPath == Init /\ [][NextEmptyPath]_vars

\* C21: a query for a path that is empty after normalization returns not
\* ignored and not matched (the zero MatchResult), whatever rules are stored.
C21_EmptyPathSafeDefault ==
    (call.op \in {"Match", "MatchWithReason"} /\ call.path \in EmptyPaths) =>
        /\ ret.result = NoMatch
        /\ ~ret.ignored

\* MatchWithReason("/", true) on a matcher whose three rules match every
\* name: x is ignored by them, "/" is not
C21_Witness ==
    /\ call.op = "MatchWithReason"
    /\ call.path = <<"/">>
    /\ call.isDir
    /\ Len(rules) = 3
    /\ MatchWithReasonResult(goos, opts, rules, <<"x">>, TRUE).Ignored
    /\ ~ret.result.Matched


-----------------------------------------------------------------------------
(* normalizePath and normalizeContent on every short input *)

\* Bounds of the model: the bytes of a path, the pieces of a content
MaxPathLen == 5
MaxPieces == 4

PathBytes == {"/", ".", "a", "\\"}

\* every path of at most MaxPathLen bytes
ShortPaths == UNION {[1..n -> PathBytes] : n \in 0..MaxPathLen}

BOM == <<"xEF", "xBB", "xBF">>

\* what contents are made of: a BOM, the first byte of one, CR, LF, text
ContentPieces == {BOM, <<"xEF">>, <<"\r">>, <<"\n">>, <<"a">>}

RECURSIVE Flatten(_)
Flatten(pieces) ==
    IF pieces = <<>> THEN <<>> ELSE Head(pieces) \o Flatten(Tail(pieces))

\* every content of at most MaxPieces pieces
ShortContents == {Flatten(ps) : ps \in UNION {[1..n -> ContentPieces] : n \in 0..MaxPieces}}

NormalizeInputs ==
    {[NoCall EXCEPT !.op = "path", !.path = p] : p \in ShortPaths}
      \cup {[NoCall EXCEPT !.op = "content", !.content = c] : c \in ShortContents}

InitNormalize ==
    /\ goos \in {"linux", "windows"}
    /\ opts = NewWithOptions(DefaultOptions)
    /\ rules = <<>>
    /\ warnings = <<>>
    /\ handler = "nil"
    /\ delivered = <<>>
    /\ mu = NoLock
    /\ procs = NoProcs
    /\ ret = NoReturn
    /\ call \in NormalizeInputs

CallNormalizePath ==
    /\ call.op = "path"
    /\ call' = [call EXCEPT !.op = "normalizePath"]
    /\ ret' = [NoReturn EXCEPT !.isNil = FALSE, !.text = normalizePath(goos, call.path)]
    /\ UNCHANGED <<mu, procs, goos, opts, rules, warnings, handler, delivered>>

CallNormalizeContent ==
    /\ call.op = "content"
    /\ call' = [call EXCEPT !.op = "normalizeContent"]
    /\ ret' = [NoReturn EXCEPT !.isNil = FALSE, !.text = normalizeContent(call.content)]
    /\ UNCHANGED <<mu, procs, goos, opts, rules, warnings, handler, delivered>>

NextNormalize == CallNormalizePath \/ CallNormalizeContent

SpecNormalize == InitNormalize /\ [][NextNormalize]_vars

\* C22: a normalized path is a fixed point of normalizePath and has no two
\* slashes in a row, no leading ./ and no slash at its end; a normalized
\* content is a fixed point of normalizeContent, does not begin with a BOM
\* and holds no carriage return.
C22_NormalizationIdempotent ==
    /\ call.op = "normalizePath" =>
          /\ normalizePath(goos, ret.text) = ret.text
          /\ ~Contains(ret.text, <<"/", "/">>)
          /\ ~HasPrefix(ret.text, <<".", "/">>)
          /\ ~HasSuffix(ret.text, <<"/">>)
    /\ call.op = "normalizeContent" =>
          /\ normalizeContent(ret.text) = ret.text
          /\ ~HasPrefix(ret.text, BOM)
          /\ \A k \in 1..Len(ret.text) : ret.text[k] # "\r"

\* ".//./" gives the empty path
C22_Witness ==
    /\ call.op = "normalizePath"
    /\ call.path = <<".", "/", "/", ".", "/">>
    /\ ret.text = <<>>


-----------------------------------------------------------------------------
(* Case-insensitive matchers *)

UpperBuildDirLine == <<"B","U","I","L","D","/">>
UpperLogLine      == <<"*",".","L","O","G">>

CaseBatches ==
    {[basePath |-> Root, isNil |-> FALSE, content |-> UpperBuildDirLine],
     [basePath |-> Root, isNil |-> FALSE, content |-> UpperLogLine],
     [basePath |-> Root, isNil |-> FALSE, content |-> BuildDirLine],
     [basePath |-> Root, isNil |-> FALSE, content |-> LogLine],
     [basePath |-> ScopeSrc, isNil |-> FALSE, content |-> LogLine]}

TestLog == <<"t","e","s","t",".","l","o","g">>

CaseQueries ==
    {[path |-> <<"b","u","i","l","d">>, isDir |-> TRUE],
     [path |-> <<"B","u","i","l","d">>, isDir |-> TRUE],
     [path |-> <<"B","U","I","L","D">>, isDir |-> TRUE],
     [path |-> TestLog, isDir |-> FALSE],
     [path |-> <<"t","e","s","t",".","L","O","G">>, isDir |-> FALSE],
     [path |-> ScopeSrc \o <<"/">> \o TestLog, isDir |-> FALSE],
     [path |-> <<"S","R","C","/">> \o TestLog, isDir |-> FALSE]}

\* NewWithOptions(MatcherOptions{CaseInsensitive: true})
InitCase ==
    /\ goos = "linux"
    /\ opts = NewWithOptions([MaxBacktrackIterations |-> 0, CaseInsensitive |-> TRUE])
    /\ rules = <<>>
    /\ warnings = <<>>
    /\ handler = "nil"
    /\ delivered = <<>>
    /\ mu = NoLock
    /\ procs = NoProcs
    /\ call = NoCall
    /\ ret = NoReturn

NextCase ==
    \/ \E b \in CaseBatches : AddPatterns(b)
    \/ \E q \in CaseQueries : Match(q.path, q.isDir)

SpecCase == InitCase /\ [][NextCase]_vars

\* the rule parseLine gives for the lower-cased text of rule r
Lowered(r) == parseLine(ToLower(r.pattern), r.line, r.basePath).rules[1]

\* rule r matches the path once pattern text and path are lower-cased
MatchesFolded(r, path, isDir) ==
    LET p == ToLower(path)
    IN  matchRule(Lowered(r), p, splitPath(p), isDir, FALSE,
                  newMatchContext(opts.MaxBacktrackIterations)).ok

\* C23: in a case-insensitive matcher a stored rule matches a path whenever
\* it matches once the pattern text and the path are both lower-cased, and
\* Match gives a path the result it gives the lower-cased path.
C23_CaseFolding ==
    (call.op = "Match" /\ opts.CaseInsensitive) =>
        LET path == normalizePath(goos, call.path) IN
        /\ \A i \in 1..Len(rules) :
              MatchesFolded(rules[i], path, call.isDir) =>
                  RuleMatches(opts, rules[i], path, call.isDir)
        /\ ret.ignored =
              MatchWithReasonResult(goos, opts, rules, ToLower(call.path), call.isDir).Ignored

\* the rules whose pattern text has no upper-case letter
LowerCaseRule(r) == r.pattern = ToLower(r.pattern)

\* what does hold: a rule written in lower case matches a path under its
\* scope whenever it matches the lower-cased path
C23_LowerCasePatternsFold ==
    (call.op = "Match" /\ opts.CaseInsensitive) =>
        LET path == normalizePath(goos, call.path) IN
        \A i \in 1..Len(rules) :
            (LowerCaseRule(rules[i]) /\ InScope(rules[i], path)
               /\ MatchesFolded(rules[i], path, call.isDir)) =>
                  RuleMatches(opts, rules[i], path, call.isDir)


-----------------------------------------------------------------------------
(* The sink of a batch that is parsed before and stored after a
   SetWarningHandler *)

\* goroutine g leaves the statements of AddPatterns that store the rules and
\* choose between the handler and the collected list
Stores(g) ==
    /\ Running(g, "cs", {"AddPatterns"})
    /\ procs'[g] # procs[g]

\* C24: the warnings of a batch go to the sink that was configured when the
\* batch was parsed, also when SetWarningHandler took effect between the
\* parse and the store of the batch.
C24_SinkFixedAtParse ==
    [][\A g \in Goroutines :
          (Stores(g) /\ Top(g).parsed.warnings # <<>>) =>
              IF Top(g).sink = "nil"
              THEN /\ warnings' = warnings \o Top(g).parsed.warnings
                   /\ procs'[g][1].ret.warns = Top(g).parsed.warnings
              ELSE /\ warnings' = warnings
                   /\ procs'[g][1].pc = "deliver"]_vars

\* what does hold: the sink is the handler registered when the batch is
\* stored, and the handler does not change while the batch is delivered
C24_SinkFixedAtStore ==
    [][\A g \in Goroutines :
          /\ (Stores(g) /\ Top(g).parsed.warnings # <<>>) =>
                IF handler = "nil"
                THEN /\ warnings' = warnings \o Top(g).parsed.warnings
                     /\ procs'[g][1].ret.warns = Top(g).parsed.warnings
                ELSE /\ warnings' = warnings
                     /\ procs'[g][1].pc = "deliver"
          /\ Writing(g) => handler' = handler
          /\ Running(g, "deliver", {"AddPatterns"}) =>
                \A k \in (Len(delivered) + 1)..Len(delivered') :
                    delivered'[k].fn = handler]_vars


-----------------------------------------------------------------------------
(* parseLine on short lines of markers, escapes and slashes *)

\* Bound of the model: the bytes of a line
MaxLineLen == 4

LineBytes == {"!", "\\", "#", "/", "x"}

RECURSIVE LinesUpTo(_)
LinesUpTo(n) ==
    IF n = 0 THEN {<<>>}
    ELSE LET shorter == LinesUpTo(n - 1)
         IN  shorter \cup {Append(l, b) : l \in {s \in shorter : Len(s) = n - 1}, b \in LineBytes}

LineInputs ==
    {[NoCall EXCEPT !.op = "line", !.basePath = b, !.content = l] :
        b \in {Root, ScopeSrc}, l \in LinesUpTo(MaxLineLen)}

InitLine ==
    /\ goos = "linux"
    /\ opts = NewWithOptions(DefaultOptions)
    /\ rules = <<>>
    /\ warnings = <<>>
    /\ handler = "nil"
    /\ delivered = <<>>
    /\ mu = NoLock
    /\ procs = NoProcs
    /\ ret = NoReturn
    /\ call \in LineInputs

\* parseLine(line, 1, basePath)
CallParseLine ==
    /\ call.op = "line"
    /\ call' = [call EXCEPT !.op = "parseLine"]
    /\ \E p \in {parseLine(call.content, 1, call.basePath)} :
          ret' = [NoReturn EXCEPT !.isNil = (p.rules = <<>>), !.rules = p.rules,
                                  !.warns = p.warnings]
    /\ UNCHANGED <<mu, procs, goos, opts, rules, warnings, handler, delivered>>

NextLine == CallParseLine

SpecLine == InitLine /\ [][NextLine]_vars

\* the text of a line after its leading markers, as the grammar gives it
Body(t) ==
    IF HasPrefix(t, <<"\\", "!">>) THEN Drop(t, 1)
    ELSE LET u == IF HasPrefix(t, <<"!">>) THEN Drop(t, 1) ELSE t
         IN  IF HasPrefix(u, <<"\\", "#">>) THEN Drop(u, 1) ELSE u

\* directory flag, anchoring and segments of a body
Shape(body) ==
    LET dir  == StripDirOnly(body)
        anch == determineAnchoring(dir.line)
    IN  [dirOnly |-> dir.dirOnly, anchored |-> anch.anchored,
         segments |-> parseSegments(anch.trimmed)]

Literal(name) == <<[value |-> name, wildcard |-> FALSE, doubleStar |-> FALSE]>>

TrailingBackslashMessage == "trailing backslash is invalid (pattern never matches)"

\* the line is rejected for its trailing backslash
RejectedForBackslash ==
    \E k \in 1..Len(ret.warns) : ret.warns[k].Message = TrailingBackslashMessage

\* the slash at the end of the body is escaped by the backslash before it
EscapedSlash(body) ==
    /\ HasSuffix(body, <<"/">>)
    /\ TrailingBackslashes(body, Len(body) - 1) % 2 = 1

\* C26: dirOnly is set, and the final slash removed, only when the text ends
\* with a slash that no backslash escapes; the line is rejected with the
\* warning for a trailing backslash exactly when the text after this step
\* ends with an odd number of backslashes.
C26_DirOnlyRespectsEscaping ==
    call.op = "parseLine" =>
        LET t     == trimTrailingWhitespace(call.content)
            body  == Body(t)
            slash == HasSuffix(body, <<"/">>) /\ ~EscapedSlash(body)
            after == IF slash THEN Take(body, Len(body) - 1) ELSE body
        IN  (t # <<>> /\ ~HasPrefix(t, <<"#">>)) =>
               /\ \A k \in 1..Len(ret.rules) : ret.rules[k].dirOnly = slash
               /\ RejectedForBackslash <=>
                     (after # <<>> /\ TrailingBackslashes(after, Len(after)) % 2 = 1)

\* what does hold: every slash at the end sets dirOnly and is removed,
\* escaped or not, and the backslashes are counted in what is left
C26_DirOnlyAnySlash ==
    call.op = "parseLine" =>
        LET t     == trimTrailingWhitespace(call.content)
            body  == Body(t)
            slash == HasSuffix(body, <<"/">>)
            after == IF slash THEN Take(body, Len(body) - 1) ELSE body
        IN  (t # <<>> /\ ~HasPrefix(t, <<"#">>)) =>
               /\ \A k \in 1..Len(ret.rules) : ret.rules[k].dirOnly = slash
               /\ RejectedForBackslash <=>
                     (after # <<>> /\ TrailingBackslashes(after, Len(after)) % 2 = 1)


-----------------------------------------------------------------------------
(* trimTrailingWhitespace on short lines *)

\* Bound of the model: the bytes of a line
MaxTrimLen == 5

TrimBytes == {"f", "\\", " ", "\t"}

RECURSIVE TrimLinesUpTo(_)
TrimLinesUpTo(n) ==
    IF n = 0 THEN {<<>>}
    ELSE LET shorter == TrimLinesUpTo(n - 1)
         IN  shorter \cup {Append(l, b) : l \in {s \in shorter : Len(s) = n - 1}, b \in TrimBytes}

TrimInputs == {[NoCall EXCEPT !.op = "untrimmed", !.content = l] : l \in TrimLinesUpTo(MaxTrimLen)}

InitTrim ==
    /\ goos = "linux"
    /\ opts = NewWithOptions(DefaultOptions)
    /\ rules = <<>>
    /\ warnings = <<>>
    /\ handler = "nil"
    /\ delivered = <<>>
    /\ mu = NoLock
    /\ procs = NoProcs
    /\ ret = NoReturn
    /\ call \in TrimInputs

CallTrimTrailingWhitespace ==
    /\ call.op = "untrimmed"
    /\ call' = [call EXCEPT !.op = "trimTrailingWhitespace"]
    /\ ret' = [NoReturn EXCEPT !.isNil = FALSE, !.text = trimTrailingWhitespace(call.content)]
    /\ UNCHANGED <<mu, procs, goos, opts, rules, warnings, handler, delivered>>

NextTrim == CallTrimTrailingWhitespace

SpecTrim == InitTrim /\ [][NextTrim]_vars

Blank(c) == c = " " \/ c = "\t"

\* line[k+1..] is the trailing run of spaces and tabs of the line
RunFrom(line, k) ==
    /\ \A i \in (k + 1)..Len(line) : Blank(line[i])
    /\ k > 0 => ~Blank(line[k])

\* s ends with an odd number of backslashes
OddBackslashes(s) ==
    \E m \in 1..Len(s) :
        /\ m % 2 = 1
        /\ \A i \in (Len(s) - m + 1)..Len(s) : s[i] = "\\"
        /\ m < Len(s) => s[Len(s) - m] # "\\"

\* C27: the result is the line without its trailing run of spaces and tabs,
\* except that when the run begins with a space and an odd number of
\* backslashes stands before it, the last of them is dropped and one space
\* kept; what stands before is never changed. foo\<space> gives foo<space>,
\* foo\\<space> gives foo\\, a backslash before a tab stays and the tab goes.
C27_TrailingWhitespace ==
    call.op = "trimTrailingWhitespace" =>
        LET line == call.content IN
        /\ \E k \in 0..Len(line) :
              /\ RunFrom(line, k)
              /\ IF k < Len(line) /\ line[k + 1] = " " /\ OddBackslashes(Take(line, k))
                 THEN ret.text = Take(line, k - 1) \o <<" ">>
                 ELSE ret.text = Take(line, k)
        /\ line = <<"f", "\\", " ">> => ret.text = <<"f", " ">>
        /\ line = <<"f", "\\", "\\", " ">> => ret.text = <<"f", "\\", "\\">>
        /\ line = <<"f", "\\", "\t">> => ret.text = <<"f", "\\">>
        /\ line = <<" ", "f", " ", "f", " ">> => ret.text = <<" ", "f", " ", "f">>

\* three backslashes before the space: the last one goes, the space stays
C27_Witness ==
    /\ call.op = "trimTrailingWhitespace"
    /\ call.content = <<"f", "\\", "\\", "\\", " ">>
    /\ ret.text = <<"f", "\\", "\\", " ">>


-----------------------------------------------------------------------------
(* matchGlob's fast paths and matchGlobRecursive *)

\* Bounds of the model: the bytes of a pattern and of a candidate, and the
\* ticks a context has counted before the call
MaxGlobLen == 3
MaxUsed == 2

FastPatternBytes == {"a", "b", "*", "?"}
FastCandidateBytes == {"a", "b"}

RECURSIVE StringsUpTo(_, _)
StringsUpTo(bytes, n) ==
    IF n = 0 THEN {<<>>}
    ELSE LET shorter == StringsUpTo(bytes, n - 1)
         IN  shorter \cup {Append(l, b) : l \in {s \in shorter : Len(s) = n - 1}, b \in bytes}

\* the ceilings: the default, none, and one that a call can reach
FastCeilings == {0, -1, MaxUsed}

FastInputs ==
    {[op |-> "input", pattern |-> p, path |-> c, maxIter |-> n, used |-> u] :
        p \in StringsUpTo(FastPatternBytes, MaxGlobLen),
        c \in StringsUpTo(FastCandidateBytes, MaxGlobLen),
        n \in FastCeilings, u \in 0..MaxUsed}

InitFast == Fresh /\ call \in FastInputs

\* the context of the call: its ceiling and the ticks counted so far
CallContext == [newMatchContext(call.maxIter) EXCEPT !.iterations = call.used]

CallMatchGlob ==
    /\ call.op = "input"
    /\ call' = [call EXCEPT !.op = "matchGlob"]
    /\ \E m \in {matchGlob(call.pattern, call.path, CallContext)} :
          ret' = [NoReturn EXCEPT !.isNil = FALSE, !.ok = m.ok,
                                  !.iterations = m.ctx.iterations]
    /\ UNCHANGED <<mu, procs, goos, opts, rules, warnings, handler, delivered>>

NextFast == CallMatchGlob

SpecFast == InitFast /\ [][NextFast]_vars

NoSpecial(pattern) == ~ContainsAny(pattern, {"*", "?", "\\", "["})

OneStar(pattern) ==
    ~ContainsAny(pattern, {"?", "\\", "["}) /\ Count(pattern, "*") = 1

\* the patterns matchGlob answers without matchGlobRecursive
FastPath(pattern) ==
    \/ NoSpecial(pattern)
    \/ pattern = <<"*">>
    \/ OneStar(pattern) /\ HasSuffix(pattern, <<"*">>)
    \/ OneStar(pattern) /\ HasPrefix(pattern, <<"*">>)

\* what the general algorithm returns for the inputs of the call
General == matchGlobRecursive(call.pattern, call.path, CallContext)

\* C28: on a pattern that takes a fast path matchGlob returns what the
\* general algorithm returns for the same pattern, candidate and context.
C28_FastPathsEqualGeneral ==
    (call.op = "matchGlob" /\ FastPath(call.pattern)) => ret.ok = General.ok

\* what does hold: a fast path counts no tick; it returns what the general
\* algorithm returns whenever that one stays within the ceiling, and true
\* wherever the general algorithm returns true
C28_FastPathsEqualWithinBudget ==
    (call.op = "matchGlob" /\ FastPath(call.pattern)) =>
        /\ ret.iterations = call.used
        /\ tick(General.ctx).ok => ret.ok = General.ok
        /\ General.ok => ret.ok


-----------------------------------------------------------------------------
(* Rules without segments *)

\* rule r matches the path
Matches(r, path, isDir) ==
    matchRule(r, path, splitPath(path), isDir, FALSE, newMatchContext(0)).ok

\* the text is three or more slashes and nothing else
OnlySlashes(body) == Len(body) >= 3 /\ \A i \in 1..Len(body) : body[i] = "/"

\* C29: every rule parseLine gives has at least one segment, also for lines
\* of slashes only and for lines of a negation marker and slashes; and a
\* rule with a scope does not match the scope directory itself.
C29_NonEmptySegments ==
    call.op = "parseLine" =>
        \A k \in 1..Len(ret.rules) :
            LET r == ret.rules[k] IN
            /\ r.segments # <<>>
            /\ r.basePath # <<>> =>
                  \A isDir \in BOOLEAN : ~Matches(r, r.basePath, isDir)

\* what does hold: a rule has no segment exactly when its text after the
\* markers is three or more slashes, and only such a rule matches its scope
\* directory
C29_EmptyOnlyFromSlashes ==
    call.op = "parseLine" =>
        \A k \in 1..Len(ret.rules) :
            LET r == ret.rules[k] IN
            /\ r.segments = <<>> <=> OnlySlashes(Body(r.pattern))
            /\ (r.basePath # <<>> /\ r.segments # <<>>) =>
                  \A isDir \in BOOLEAN : ~Matches(r, r.basePath, isDir)


-----------------------------------------------------------------------------
(* The fields of a MatchResult *)

\* the fields of result r agree with each other
Consistent(r) ==
    /\ r.Ignored = (r.Matched /\ ~r.Negated)
    /\ r.Ignored => r.Matched
    /\ ~r.Matched => (r.Rule = <<>> /\ r.Line = 0 /\ r.BasePath = <<>> /\ ~r.Negated)

\* Match is called with the arguments of the MatchWithReason before it
SameQuery ==
    /\ call.op = "MatchWithReason"
    /\ call'.op = "Match"
    /\ call'.path = call.path
    /\ call'.isDir = call.isDir

\* C30: in every result of MatchWithReason Ignored is Matched and not
\* Negated, Ignored implies Matched, and a result that is not Matched has an
\* empty Rule, Line 0, an empty BasePath and Negated false; Match called
\* with the arguments of a MatchWithReason on the same rules returns the
\* Ignored field of its result.
C30_ResultConsistency ==
    /\ [](call.op = "MatchWithReason" => Consistent(ret.result))
    /\ [][SameQuery => ret'.ignored = ret.result.Ignored]_vars

\* the path x under the rules * and !*: matched, negated, not ignored
C30_Witness ==
    /\ call.op = "MatchWithReason"
    /\ call.path = <<"x">>
    /\ Len(rules) = 2
    /\ ret.result.Rule = NotStarLine
    /\ ret.result.Line = 1
    /\ ret.result.Matched
    /\ ret.result.Negated
    /\ ~ret.result.Ignored


=============================================================================
